---- MODULE Spec2Model ----
(***************************************************************************)
(* A model of the ramparts MCP stdio proxy (getjavelin/ramparts):          *)
(*   - the framed codec (read_jsonrpc_message / write_jsonrpc_message),    *)
(*   - the validation service (local rules, test-mode sentinel, fail       *)
(*     policy),                                                            *)
(*   - the two directional proxy workers and the main task,                *)
(*   - the log sanitizer (logging.rs), the POST /validate handler          *)
(*     (proxy.rs) and the environment of the spawned target server.        *)
(*                                                                         *)
(* Text is modelled as a sequence of characters, a byte stream as a        *)
(* sequence of bytes.  A character or byte is a short string token: an     *)
(* ASCII character stands for itself, "LF" "CR" "SP" "TAB" are the         *)
(* whitespace characters, "e_acute" is the two-byte character U+00E9,      *)
(* "U+FFFD" the three-byte replacement character, "ellipsis" the           *)
(* three-byte character U+2026; "xC3" "xA9" "xEF" "xBF" "xBD" "xFF" and    *)
(* the like are raw bytes, "BQ" is the backquote.                          *)
(***************************************************************************)
EXTENDS Integers, Sequences, FiniteSets, TLC

VARIABLES
    \* ---- configuration (ProxyConfig), fixed at start ----
    apiKey,        \* config.javelin.api_key
    failOpen,      \* config.javelin.fail_open
    \* ---- framed codec (one reader over one byte stream) ----
    producer,      \* what the peer writes: "framed", "ndjson" or "cut"
    codecPc,       \* "write" | "read" | "done"
    sent,          \* payloads (or lines) the peer has written, in order
    wire,          \* bytes not yet consumed by the BufReader
    received,      \* results of the read_jsonrpc_message calls so far
    \* ---- validation service called on its own ----
    vsCall,        \* the last call: [fn, message, javelin]
    vsResult,      \* what it returned
    vsCount,       \* calls made so far
    \* ---- the stdio proxy ----
    mainPc,        \* main: "select" | "kill" | "exited"
    childKilled,   \* child.kill() was called
    c2sPc,         \* client-to-server worker: "read" | "insert" | "forward" |
                   \*   "out_header" | "out_payload" | "done"
    c2sOut,        \* the frame it is about to write
    c2sExit,       \* "running" | "eof" | "read_err" | "write_err"
    c2sLog,        \* the payloads it has read, each with its verdict
    s2cPc,         \* server-to-client worker: "read" | "out_header" |
                   \*   "out_payload" | "done"
    s2cOut,
    s2cExit,
    s2cLog,
    request_tracker, \* HashMap<Value, Value>: id -> request
    child_stdin,   \* the chunks written to the child's stdin, in order
    stdout,        \* the chunks written to the proxy's stdout, in order
    unflushed,     \* <<stream, worker>>: bytes the worker wrote to the stream and has not flushed
    outstanding,   \* history: ids forwarded to the server and not yet
                   \*   answered by a response
    traffic,       \* what the two peers send: "any" payloads, or "matching"
                   \*   (requests with unique ids, each answered at most once)
    \* ---- the log sanitizer, called on its own ----
    logCall,       \* the function called and its argument
    logResult,     \* what it returned, or that it panicked
    \* ---- the HTTP gateway ----
    httpCall,      \* the request POST /validate was given, and the verdict
    httpResponse,  \* what POST /validate answered
    \* ---- spawning the target server ----
    parentEnv,     \* the proxy's environment: name -> value
    childEnv       \* the environment the child was started with

configVars == <<apiKey, failOpen>>

mainVars == <<mainPc, childKilled>>

c2sVars == <<c2sPc, c2sOut, c2sExit, c2sLog>>

s2cVars == <<s2cPc, s2cOut, s2cExit, s2cLog>>

sharedVars == <<request_tracker, child_stdin, stdout, unflushed, outstanding>>

envVars == <<traffic>>

proxyVars == <<mainVars, c2sVars, s2cVars, sharedVars, envVars>>

codecVars == <<producer, codecPc, sent, wire, received>>

vsVars == <<vsCall, vsResult, vsCount>>

logVars == <<logCall, logResult>>

spawnVars == <<parentEnv, childEnv>>

httpVars == <<httpCall, httpResponse>>

auxVars == <<logVars, httpVars, spawnVars>>

vars == <<configVars, codecVars, vsVars, proxyVars, auxVars>>

-----------------------------------------------------------------------------
(* Bounds of the model *)

\* frames (or lines) the peer writes before it closes the stream
MaxFrames == 2
\* characters per payload
MaxPayloadLen == 2
\* calls of the validation service on its own
MaxValidations == 2
\* payloads the client sends before its stream ends
MaxClientMsgs == 2
\* payloads the target server sends before its stream ends
MaxServerMsgs == 1
\* requests a client with matching traffic sends
MaxRequests == 2
\* bytes a logged string has past the truncation limit
MaxOver == 2

-----------------------------------------------------------------------------
(* Characters, bytes, UTF-8 *)

None == -1

Whitespace == {"SP", "TAB", "LF", "CR"}

PayloadChars == {"{", "LF", "7", "e_acute"}

LineChars == {"{", "SP", "e_acute"}

DigitChars == <<"0", "1", "2", "3", "4", "5", "6", "7", "8", "9">>

IsDigit(c) == \E i \in 1..10 : DigitChars[i] = c

DigitValue(c) == (CHOOSE i \in 1..10 : DigitChars[i] = c) - 1

\* str::as_bytes of one character
CharBytes(c) ==
    CASE c = "e_acute" -> <<"xC3", "xA9">>
      [] c = "U+FFFD"  -> <<"xEF", "xBF", "xBD">>
      [] c = "ellipsis" -> <<"xE2", "x80", "xA6">>
      [] OTHER         -> <<c>>

RECURSIVE as_bytes(_)
as_bytes(s) ==
    IF s = <<>> THEN <<>> ELSE CharBytes(Head(s)) \o as_bytes(Tail(s))

IsAsciiByte(b) == b \notin {"xC3", "xA9", "xEF", "xBF", "xBD", "xFF"}

\* String::from_utf8_lossy: a well-formed sequence decodes to its character,
\* every maximal ill-formed part to one U+FFFD.
RECURSIVE from_utf8_lossy(_)
from_utf8_lossy(b) ==
    IF b = <<>> THEN <<>>
    ELSE IF IsAsciiByte(b[1]) THEN <<b[1]>> \o from_utf8_lossy(Tail(b))
    ELSE IF b[1] = "xC3" /\ Len(b) >= 2 /\ b[2] = "xA9"
         THEN <<"e_acute">> \o from_utf8_lossy(SubSeq(b, 3, Len(b)))
    ELSE IF b[1] = "xEF" /\ Len(b) >= 3 /\ b[2] = "xBF" /\ b[3] = "xBD"
         THEN <<"U+FFFD">> \o from_utf8_lossy(SubSeq(b, 4, Len(b)))
    ELSE IF b[1] = "xEF" /\ Len(b) >= 2 /\ b[2] = "xBF"
         THEN <<"U+FFFD">> \o from_utf8_lossy(SubSeq(b, 3, Len(b)))
    ELSE <<"U+FFFD">> \o from_utf8_lossy(Tail(b))

\* std::str::from_utf8(..).is_ok()
Utf8Valid(b) == as_bytes(from_utf8_lossy(b)) = b /\
                \A i \in 1..Len(b) : b[i] # "xFF"

\* format!("{}", n) of an unsigned integer
RECURSIVE DecStr(_)
DecStr(n) ==
    IF n < 10 THEN <<DigitChars[n + 1]>>
    ELSE DecStr(n \div 10) \o <<DigitChars[(n % 10) + 1]>>

RECURSIVE trim_end(_)
trim_end(s) ==
    IF s # <<>> /\ s[Len(s)] \in Whitespace
    THEN trim_end(SubSeq(s, 1, Len(s) - 1)) ELSE s

RECURSIVE trim_start(_)
trim_start(s) ==
    IF s # <<>> /\ Head(s) \in Whitespace THEN trim_start(Tail(s)) ELSE s

trim(s) == trim_end(trim_start(s))

starts_with(s, p) == Len(s) >= Len(p) /\ SubSeq(s, 1, Len(p)) = p

\* str::strip_prefix, for a string that starts with p
strip_prefix(s, p) == SubSeq(s, Len(p) + 1, Len(s))

RECURSIVE DigitsValue(_, _)
DigitsValue(s, acc) ==
    IF s = <<>> THEN acc
    ELSE DigitsValue(Tail(s), acc * 10 + DigitValue(Head(s)))

\* str::parse::<usize>().ok(): decimal digits after an optional "+";
\* None for anything else.
parse_usize(s) ==
    LET d == IF s # <<>> /\ Head(s) = "+" THEN Tail(s) ELSE s IN
    IF d # <<>> /\ \A i \in 1..Len(d) : IsDigit(d[i])
    THEN DigitsValue(d, 0) ELSE None

-----------------------------------------------------------------------------
(* JSON values (serde_json::Value).  A value is [t, v]: t is its type, v is  *)
(* 0 for null, the number, the characters of a string, the elements of an  *)
(* array, or the members of an object as a sequence of [k, val] in          *)
(* serialisation order.  Absent stands for Option::None.                    *)

Absent == [t |-> "absent", v |-> 0]
JNull == [t |-> "null", v |-> 0]
JNum(n) == [t |-> "num", v |-> n]
JStr(s) == [t |-> "str", v |-> s]
JObj(members) == [t |-> "obj", v |-> members]
JBool(b) == [t |-> "bool", v |-> b]
Member(k, val) == [k |-> k, val |-> val]

\* Value::get(key): None unless the value is an object with that key
Get(value, key) ==
    IF value.t = "obj" /\ \E i \in 1..Len(value.v) : value.v[i].k = key
    THEN value.v[CHOOSE i \in 1..Len(value.v) : value.v[i].k = key].val
    ELSE Absent

IsSome(opt) == opt.t # "absent"

\* Value::as_str().is_some()
IsStr(value) == value.t = "str"

UpperLetters ==
    <<"A", "B", "C", "D", "E", "F", "G", "H", "I", "J", "K", "L", "M",
      "N", "O", "P", "Q", "R", "S", "T", "U", "V", "W", "X", "Y", "Z">>

LowerLetters ==
    <<"a", "b", "c", "d", "e", "f", "g", "h", "i", "j", "k", "l", "m",
      "n", "o", "p", "q", "r", "s", "t", "u", "v", "w", "x", "y", "z">>

LowerChar(c) ==
    IF \E i \in 1..26 : UpperLetters[i] = c
    THEN LowerLetters[CHOOSE i \in 1..26 : UpperLetters[i] = c]
    ELSE c

\* str::to_lowercase
to_lowercase(s) == [i \in 1..Len(s) |-> LowerChar(s[i])]

\* str::contains(pattern)
contains(s, pattern) ==
    \E i \in 1..(Len(s) - Len(pattern) + 1) :
        SubSeq(s, i, i + Len(pattern) - 1) = pattern

\* str::replace(from, to)
RECURSIVE replace(_, _, _)
replace(s, from, to) ==
    IF s = <<>> THEN <<>>
    ELSE IF starts_with(s, from)
         THEN to \o replace(strip_prefix(s, from), from, to)
         ELSE <<Head(s)>> \o replace(Tail(s), from, to)

\* the characters serde_json writes for one character of a string
EscapeChar(c) ==
    CASE c = "\""  -> <<"\\", "\"">>
      [] c = "\\"  -> <<"\\", "\\">>
      [] c = "LF"  -> <<"\\", "n">>
      [] c = "CR"  -> <<"\\", "r">>
      [] c = "TAB" -> <<"\\", "t">>
      [] OTHER     -> <<c>>

RECURSIVE EscapeStr(_)
EscapeStr(s) ==
    IF s = <<>> THEN <<>> ELSE EscapeChar(Head(s)) \o EscapeStr(Tail(s))

\* Value::to_string: compact JSON text
RECURSIVE to_string(_)
to_string(value) ==
    LET RECURSIVE Members(_, _)
        Members(ms, i) ==
            IF i > Len(ms) THEN <<>>
            ELSE (IF i > 1 THEN <<",">> ELSE <<>>)
                 \o <<"\"">> \o EscapeStr(ms[i].k) \o <<"\"", ":">>
                 \o to_string(ms[i].val) \o Members(ms, i + 1)
    IN CASE value.t = "null" -> <<"n", "u", "l", "l">>
         [] value.t = "num"  -> (IF value.v < 0 THEN <<"-">> \o DecStr(-value.v)
                                 ELSE DecStr(value.v))
         [] value.t = "str"  -> <<"\"">> \o EscapeStr(value.v) \o <<"\"">>
         [] value.t = "obj"  -> <<"{">> \o Members(value.v, 1) \o <<"}">>

-----------------------------------------------------------------------------
(* Strings of the protocol and of the rule engine *)
\* the member names of the JSON objects read and built
Key ==
    [ \* "jsonrpc"
      jsonrpc |-> <<"j", "s", "o", "n", "r", "p", "c">>,
      \* "id"
      id |-> <<"i", "d">>,
      \* "method"
      method |-> <<"m", "e", "t", "h", "o", "d">>,
      \* "params"
      params |-> <<"p", "a", "r", "a", "m", "s">>,
      \* "name"
      name |-> <<"n", "a", "m", "e">>,
      \* "arguments"
      arguments |-> <<"a", "r", "g", "u", "m", "e", "n", "t", "s">>,
      \* "uri"
      uri |-> <<"u", "r", "i">>,
      \* "result"
      result |-> <<"r", "e", "s", "u", "l", "t">>,
      \* "error"
      error |-> <<"e", "r", "r", "o", "r">>,
      \* "code"
      code |-> <<"c", "o", "d", "e">>,
      \* "message"
      message |-> <<"m", "e", "s", "s", "a", "g", "e">>,
      \* "data"
      data |-> <<"d", "a", "t", "a">>,
      \* "reason"
      reason |-> <<"r", "e", "a", "s", "o", "n">>,
      \* "valid"
      valid |-> <<"v", "a", "l", "i", "d">>,
      \* "blocked_by"
      blocked_by |-> <<"b", "l", "o", "c", "k", "e", "d", "_", "b", "y">>,
      \* "confidence"
      confidence |-> <<"c", "o", "n", "f", "i", "d", "e", "n", "c", "e">>,
      \* "request_id"
      request_id |-> <<"r", "e", "q", "u", "e", "s", "t", "_", "i", "d">>,
      \* "timestamp"
      timestamp |-> <<"t", "i", "m", "e", "s", "t", "a", "m", "p">>,
      \* "service"
      service |-> <<"s", "e", "r", "v", "i", "c", "e">>,
      \* "cmd"
      cmd |-> <<"c", "m", "d">>,
      \* "city"
      city |-> <<"c", "i", "t", "y">> ]

\* the method names
Method ==
    [ \* "tools/call"
      tools_call |-> <<"t", "o", "o", "l", "s", "/", "c", "a", "l", "l">>,
      \* "resources/read"
      resources_read |-> <<"r", "e", "s", "o", "u", "r", "c", "e", "s", "/",
          "r", "e", "a", "d">>,
      \* "prompts/get"
      prompts_get |-> <<"p", "r", "o", "m", "p", "t", "s", "/", "g", "e",
          "t">>,
      \* "tools/list"
      tools_list |-> <<"t", "o", "o", "l", "s", "/", "l", "i", "s", "t">>,
      \* "unknown"
      unknown |-> <<"u", "n", "k", "n", "o", "w", "n">>,
      \* "notifications/initialized"
      notifications_initialized |-> <<"n", "o", "t", "i", "f", "i", "c",
          "a", "t", "i", "o", "n", "s", "/", "i", "n", "i", "t", "i", "a", "l",
          "i", "z", "e", "d">>,
      \* "sampling/createMessage"
      sampling_createMessage |-> <<"s", "a", "m", "p", "l", "i", "n", "g",
          "/", "c", "r", "e", "a", "t", "e", "M", "e", "s", "s", "a", "g", "e">>
          ]

\* other strings of the protocol and of the verdicts
Text ==
    [ \* "2.0"
      v2_0 |-> <<"2", ".", "0">>,
      \* "Request"
      Request |-> <<"R", "e", "q", "u", "e", "s", "t">>,
      \* "Response"
      Response |-> <<"R", "e", "s", "p", "o", "n", "s", "e">>,
      \* "ramparts-mcp-proxy-stdio"
      stdio_binary |-> <<"r", "a", "m", "p", "a", "r", "t", "s", "-", "m",
          "c", "p", "-", "p", "r", "o", "x", "y", "-", "s", "t", "d", "i",
          "o">>,
      \* "ramparts-proxy"
      ramparts_proxy |-> <<"r", "a", "m", "p", "a", "r", "t", "s", "-", "p",
          "r", "o", "x", "y">>,
      \* "Request blocked by Ramparts security"
      request_blocked_ramparts |-> <<"R", "e", "q", "u", "e", "s", "t",
          "SP", "b", "l", "o", "c", "k", "e", "d", "SP", "b", "y", "SP", "R",
          "a", "m", "p", "a", "r", "t", "s", "SP", "s", "e", "c", "u", "r", "i",
          "t", "y">>,
      \* "Response blocked by Ramparts security"
      response_blocked_ramparts |-> <<"R", "e", "s", "p", "o", "n", "s",
          "e", "SP", "b", "l", "o", "c", "k", "e", "d", "SP", "b", "y", "SP",
          "R", "a", "m", "p", "a", "r", "t", "s", "SP", "s", "e", "c", "u", "r",
          "i", "t", "y">>,
      \* "Request blocked by Javelin Guardrails"
      request_blocked_javelin |-> <<"R", "e", "q", "u", "e", "s", "t", "SP",
          "b", "l", "o", "c", "k", "e", "d", "SP", "b", "y", "SP", "J", "a",
          "v", "e", "l", "i", "n", "SP", "G", "u", "a", "r", "d", "r", "a", "i",
          "l", "s">>,
      \* "Internal validation error"
      internal_validation_error |-> <<"I", "n", "t", "e", "r", "n", "a",
          "l", "SP", "v", "a", "l", "i", "d", "a", "t", "i", "o", "n", "SP",
          "e", "r", "r", "o", "r">>,
      \* "timeout"
      timeout |-> <<"t", "i", "m", "e", "o", "u", "t">>,
      \* "uuid-"
      uuid |-> <<"u", "u", "i", "d", "-">>,
      \* "T"
      time |-> <<"T">>,
      \* "***REDACTED***"
      redacted |-> <<"*", "*", "*", "R", "E", "D", "A", "C", "T", "E", "D",
          "*", "*", "*">>,
      \* the ellipsis character and " (", which follow the kept prefix
      ellipsis_open |-> <<"ellipsis", "SP", "(">>,
      \* " chars)"
      chars_close |-> <<"SP", "c", "h", "a", "r", "s", ")">> ]

\* the reasons of the verdicts, around the part filled in
Reason ==
    [ \* "Dangerous tool '"
      dangerous_pre |-> <<"D", "a", "n", "g", "e", "r", "o", "u", "s", "SP",
          "t", "o", "o", "l", "SP", "'">>,
      \* "' blocked by security policy"
      dangerous_post |-> <<"'", "SP", "b", "l", "o", "c", "k", "e", "d",
          "SP", "b", "y", "SP", "s", "e", "c", "u", "r", "i", "t", "y", "SP",
          "p", "o", "l", "i", "c", "y">>,
      \* "Tool '"
      tool_pre |-> <<"T", "o", "o", "l", "SP", "'">>,
      \* "' arguments contain injection patterns"
      tool_post |-> <<"'", "SP", "a", "r", "g", "u", "m", "e", "n", "t",
          "s", "SP", "c", "o", "n", "t", "a", "i", "n", "SP", "i", "n", "j",
          "e", "c", "t", "i", "o", "n", "SP", "p", "a", "t", "t", "e", "r", "n",
          "s">>,
      \* "Resource URI '"
      uri_pre |-> <<"R", "e", "s", "o", "u", "r", "c", "e", "SP", "U", "R",
          "I", "SP", "'">>,
      \* "' contains path traversal patterns"
      uri_post |-> <<"'", "SP", "c", "o", "n", "t", "a", "i", "n", "s",
          "SP", "p", "a", "t", "h", "SP", "t", "r", "a", "v", "e", "r", "s",
          "a", "l", "SP", "p", "a", "t", "t", "e", "r", "n", "s">>,
      \* "Prompt '"
      prompt_pre |-> <<"P", "r", "o", "m", "p", "t", "SP", "'">>,
      \* "' contains injection patterns"
      prompt_post |-> <<"'", "SP", "c", "o", "n", "t", "a", "i", "n", "s",
          "SP", "i", "n", "j", "e", "c", "t", "i", "o", "n", "SP", "p", "a",
          "t", "t", "e", "r", "n", "s">>,
      \* "Test mode - "
      test_pre |-> <<"T", "e", "s", "t", "SP", "m", "o", "d", "e", "SP",
          "-", "SP">>,
      \* " validation bypassed"
      test_post |-> <<"SP", "v", "a", "l", "i", "d", "a", "t", "i", "o",
          "n", "SP", "b", "y", "p", "a", "s", "s", "e", "d">>,
      \* "Request approved by Javelin Guardrails"
      approved |-> <<"R", "e", "q", "u", "e", "s", "t", "SP", "a", "p", "p",
          "r", "o", "v", "e", "d", "SP", "b", "y", "SP", "J", "a", "v", "e",
          "l", "i", "n", "SP", "G", "u", "a", "r", "d", "r", "a", "i", "l",
          "s">>,
      \* "Request blocked by Javelin Guardrails"
      blocked |-> <<"R", "e", "q", "u", "e", "s", "t", "SP", "b", "l", "o",
          "c", "k", "e", "d", "SP", "b", "y", "SP", "J", "a", "v", "e", "l",
          "i", "n", "SP", "G", "u", "a", "r", "d", "r", "a", "i", "l", "s">>,
      \* "Validation service unavailable, failing open: "
      failing_open |-> <<"V", "a", "l", "i", "d", "a", "t", "i", "o", "n",
          "SP", "s", "e", "r", "v", "i", "c", "e", "SP", "u", "n", "a", "v",
          "a", "i", "l", "a", "b", "l", "e", ",", "SP", "f", "a", "i", "l", "i",
          "n", "g", "SP", "o", "p", "e", "n", ":", "SP">>,
      \* "Validation service unavailable, failing closed: "
      failing_closed |-> <<"V", "a", "l", "i", "d", "a", "t", "i", "o", "n",
          "SP", "s", "e", "r", "v", "i", "c", "e", "SP", "u", "n", "a", "v",
          "a", "i", "l", "a", "b", "l", "e", ",", "SP", "f", "a", "i", "l", "i",
          "n", "g", "SP", "c", "l", "o", "s", "e", "d", ":", "SP">> ]

\* is_dangerous_tool: dangerous_tools
dangerous_tools ==
    <<<<"e", "x", "e", "c">>, <<"s", "h", "e", "l", "l">>,
      <<"b", "a", "s", "h">>, <<"c", "m", "d">>,
      <<"p", "o", "w", "e", "r", "s", "h", "e", "l", "l">>,
      <<"e", "v", "a", "l">>, <<"s", "y", "s", "t", "e", "m">>,
      <<"s", "u", "b", "p", "r", "o", "c", "e", "s", "s">>,
      <<"p", "o", "p", "e", "n">>, <<"s", "p", "a", "w", "n">>,
      <<"f", "o", "r", "k">>, <<"k", "i", "l", "l">>, <<"r", "m">>,
      <<"d", "e", "l">>, <<"f", "o", "r", "m", "a", "t">>,
      <<"f", "d", "i", "s", "k">>, <<"m", "k", "f", "s">>, <<"d", "d">>,
      <<"n", "c">>, <<"n", "e", "t", "c", "a", "t">>,
      <<"t", "e", "l", "n", "e", "t">>,
      <<"c", "u", "r", "l", "_", "e", "x", "e", "c">>,
      <<"w", "g", "e", "t", "_", "e", "x", "e", "c">>,
      <<"d", "o", "w", "n", "l", "o", "a", "d", "_", "e", "x", "e", "c">>>>

\* contains_injection_patterns: injection_patterns
injection_patterns ==
    <<<<";", "SP">>, <<"|", "SP">>, <<"&", "SP">>, <<"$", "(">>, <<"BQ">>,
      <<"&", "&">>, <<"|", "|">>, <<".", ".", "/">>, <<".", ".", "\\">>,
      <<"r", "m", "SP", "-">>, <<"d", "e", "l", "SP">>,
      <<"f", "o", "r", "m", "a", "t", "SP">>, <<"f", "d", "i", "s", "k">>,
      <<"m", "k", "f", "s">>, <<"d", "d", "SP", "i", "f", "=">>,
      <<"c", "u", "r", "l", "SP">>, <<"w", "g", "e", "t", "SP">>,
      <<"n", "c", "SP">>, <<"n", "e", "t", "c", "a", "t">>,
      <<"t", "e", "l", "n", "e", "t">>, <<"s", "s", "h", "SP">>,
      <<"b", "a", "s", "e", "6", "4">>, <<"e", "v", "a", "l">>,
      <<"e", "x", "e", "c">>, <<"s", "y", "s", "t", "e", "m">>,
      <<"p", "o", "p", "e", "n">>>>

\* contains_path_traversal: the patterns of its disjunction
path_traversal_patterns ==
    <<<<".", ".", "/">>, <<".", ".", "\\">>,
      <<"%", "2", "e", "%", "2", "e">>, <<".", ".", ".", ".">>,
      <<"/", "e", "t", "c", "/">>,
      <<"\\", "w", "i", "n", "d", "o", "w", "s", "\\">>,
      <<"/", "p", "r", "o", "c", "/">>, <<"/", "s", "y", "s", "/">>>>

\* contains_prompt_injection: injection_patterns
prompt_injection_patterns ==
    <<<<"i", "g", "n", "o", "r", "e">>, <<"f", "o", "r", "g", "e", "t">>,
      <<"d", "i", "s", "r", "e", "g", "a", "r", "d">>,
      <<"o", "v", "e", "r", "r", "i", "d", "e">>,
      <<"b", "y", "p", "a", "s", "s">>,
      <<"j", "a", "i", "l", "b", "r", "e", "a", "k">>,
      <<"s", "y", "s", "t", "e", "m", ":">>,
      <<"a", "s", "s", "i", "s", "t", "a", "n", "t", ":">>,
      <<"u", "s", "e", "r", ":">>, <<"h", "u", "m", "a", "n", ":">>,
      <<"a", "i", ":">>, <<"c", "h", "a", "t", "g", "p", "t", ":">>,
      <<"\\", "n", "\\", "n">>, <<"-", "-", "-">>, <<"#", "#", "#">>,
      <<"BQ", "BQ", "BQ">>, <<"e", "x", "e", "c">>, <<"e", "v", "a", "l">>,
      <<"s", "c", "r", "i", "p", "t">>>>

-----------------------------------------------------------------------------
(* The framed codec *)

ContentLengthPrefix ==
    <<"C", "o", "n", "t", "e", "n", "t", "-", "L", "e", "n", "g", "t", "h", ":">>

\* write_jsonrpc_message with the length taken in characters, not bytes
write_jsonrpc_message_chars(payload) ==
    as_bytes(ContentLengthPrefix \o <<"SP">> \o DecStr(Len(payload))
             \o <<"CR", "LF", "CR", "LF">>)
    \o as_bytes(payload)

\* write_jsonrpc_message: the bytes of one frame, header then payload
write_jsonrpc_message(payload) ==
    as_bytes(ContentLengthPrefix \o <<"SP">> \o DecStr(Len(as_bytes(payload)))
             \o <<"CR", "LF", "CR", "LF">>)
    \o as_bytes(payload)

\* AsyncBufReadExt::read_line on the remaining bytes s: the bytes up to and
\* including the first LF (all of s when it holds none); n = 0 at end of file;
\* ok = FALSE when the bytes read are not UTF-8.
read_line(s) ==
    LET nl  == {i \in 1..Len(s) : s[i] = "LF"}
        n   == IF nl = {} THEN Len(s)
               ELSE CHOOSE i \in nl : \A j \in nl : i <= j
        raw == SubSeq(s, 1, n)
    IN [n    |-> n,
        ok   |-> Utf8Valid(raw),
        line |-> from_utf8_lossy(raw),
        rest |-> SubSeq(s, n + 1, Len(s))]

ReadEof(rest) == [res |-> "eof", payload |-> <<>>, rest |-> rest]
ReadErr(rest) == [res |-> "err", payload |-> <<>>, rest |-> rest]
ReadOk(p, rest) == [res |-> "ok", payload |-> p, rest |-> rest]

\* the header loop of read_jsonrpc_message: "eof", "err", or "break" with the
\* content length seen last
RECURSIVE HeaderLoop(_, _)
HeaderLoop(s, content_length) ==
    LET rl == read_line(s) IN
    IF rl.n = 0 THEN [res |-> "eof", cl |-> content_length, rest |-> rl.rest]
    ELSE IF ~rl.ok THEN [res |-> "err", cl |-> content_length, rest |-> rl.rest]
    ELSE LET line == trim_end(rl.line) IN
         IF line = <<>>
         THEN [res |-> "break", cl |-> content_length, rest |-> rl.rest]
         ELSE HeaderLoop(rl.rest,
                  IF starts_with(line, ContentLengthPrefix)
                  THEN parse_usize(trim(strip_prefix(line, ContentLengthPrefix)))
                  ELSE content_length)

\* read_jsonrpc_message on the remaining bytes s
read_jsonrpc_message(s) ==
    LET h == HeaderLoop(s, None) IN
    IF h.res = "eof" THEN ReadEof(h.rest)
    ELSE IF h.res = "err" THEN ReadErr(h.rest)
    ELSE IF h.cl # None
         THEN IF Len(h.rest) < h.cl
              THEN ReadErr(<<>>)     \* read_exact: UnexpectedEof
              ELSE ReadOk(from_utf8_lossy(SubSeq(h.rest, 1, h.cl)),
                          SubSeq(h.rest, h.cl + 1, Len(h.rest)))
         ELSE LET rl == read_line(h.rest) IN
              IF rl.n = 0 THEN ReadEof(rl.rest)
              ELSE IF ~rl.ok THEN ReadErr(rl.rest)
              ELSE ReadOk(trim(rl.line), rl.rest)

-----------------------------------------------------------------------------
(* The validation service (validation_service.rs).  A confidence is held in *)
(* tenths: 9 is 0.9.                                                       *)

\* the ValidationResult struct
ValidationResult(allowed, reason, confidence, request_id, timestamp) ==
    [allowed |-> allowed, reason |-> reason, confidence |-> confidence,
     request_id |-> request_id, timestamp |-> timestamp]

OptNone == [some |-> FALSE]
OptSome(x) == [some |-> TRUE, val |-> x]

\* the iterator's .any(..) over a list of patterns
AnyPattern(patterns, s) ==
    \E i \in 1..Len(patterns) : contains(s, patterns[i])

is_dangerous_tool(tool_name) ==
    AnyPattern(dangerous_tools, to_lowercase(tool_name))

contains_injection_patterns(args) ==
    AnyPattern(injection_patterns, to_lowercase(to_string(args)))

contains_path_traversal(uri) ==
    AnyPattern(path_traversal_patterns, to_lowercase(uri))

contains_prompt_injection(prompt_name) ==
    AnyPattern(prompt_injection_patterns, to_lowercase(prompt_name))

\* validate_method_specific: Some(block verdict) when a local rule matches,
\* None otherwise
validate_method_specific(request, method, request_id, timestamp) ==
    LET params == Get(request, Key.params)
        name   == Get(params, Key.name)
        args   == Get(params, Key.arguments)
        uri    == Get(params, Key.uri)
    IN
    CASE method = Method.tools_call ->
           IF IsSome(params) /\ IsStr(name)
           THEN IF is_dangerous_tool(name.v)
                THEN OptSome(ValidationResult(FALSE,
                         Reason.dangerous_pre \o name.v \o Reason.dangerous_post,
                         9, request_id, timestamp))
                ELSE IF IsSome(args) /\ contains_injection_patterns(args)
                THEN OptSome(ValidationResult(FALSE,
                         Reason.tool_pre \o name.v \o Reason.tool_post,
                         8, request_id, timestamp))
                ELSE OptNone
           ELSE OptNone
      [] method = Method.resources_read ->
           IF IsSome(params) /\ IsStr(uri) /\ contains_path_traversal(uri.v)
           THEN OptSome(ValidationResult(FALSE,
                    Reason.uri_pre \o uri.v \o Reason.uri_post,
                    9, request_id, timestamp))
           ELSE OptNone
      [] method = Method.prompts_get ->
           IF IsSome(params) /\ IsStr(name) /\ contains_prompt_injection(name.v)
           THEN OptSome(ValidationResult(FALSE,
                    Reason.prompt_pre \o name.v \o Reason.prompt_post,
                    8, request_id, timestamp))
           ELSE OptNone
      [] OTHER -> OptNone

\* what JavelinClient::validate_request can return: Ok(true), Ok(false),
\* Err(e)
JavelinOk(is_valid) == [ok |-> TRUE, is_valid |-> is_valid, err |-> <<>>]
JavelinErr(e) == [ok |-> FALSE, is_valid |-> FALSE, err |-> e]
JavelinOutcomes == {JavelinOk(TRUE), JavelinOk(FALSE), JavelinErr(Text.timeout)}

\* a Result<ValidationResult>; javelin_called records whether the call went
\* to the Guardrails client
ResultOk(value, javelin_called) ==
    [ok |-> TRUE, value |-> value, javelin_called |-> javelin_called]

\* validate_request with the error branch always allowing
validate_request_always_open(request, api_key, fail_open, javelin, request_id, timestamp) ==
    LET m      == Get(request, Key.method)
        method == IF IsStr(m) THEN m.v ELSE Method.unknown
        method_result ==
            validate_method_specific(request, method, request_id, timestamp)
    IN
    IF method_result.some THEN ResultOk(method_result.val, FALSE)
    ELSE IF api_key = "test-mode"
    THEN ResultOk(ValidationResult(TRUE, Reason.test_pre \o method \o Reason.test_post,
                                   10, request_id, timestamp), FALSE)
    ELSE IF javelin.ok
    THEN ResultOk(ValidationResult(javelin.is_valid,
                      IF javelin.is_valid THEN Reason.approved ELSE Reason.blocked,
                      IF javelin.is_valid THEN 9 ELSE 1,
                      request_id, timestamp), TRUE)
    ELSE ResultOk(ValidationResult(TRUE, Reason.failing_open \o javelin.err,
                      0, request_id, timestamp), TRUE)

\* validate_request without the test-mode sentinel
validate_request_no_sentinel(request, api_key, fail_open, javelin, request_id, timestamp) ==
    LET m      == Get(request, Key.method)
        method == IF IsStr(m) THEN m.v ELSE Method.unknown
        method_result ==
            validate_method_specific(request, method, request_id, timestamp)
    IN
    IF method_result.some THEN ResultOk(method_result.val, FALSE)
    ELSE IF javelin.ok
    THEN ResultOk(ValidationResult(javelin.is_valid,
                      IF javelin.is_valid THEN Reason.approved ELSE Reason.blocked,
                      IF javelin.is_valid THEN 9 ELSE 1,
                      request_id, timestamp), TRUE)
    ELSE ResultOk(ValidationResult(fail_open,
                      IF fail_open THEN Reason.failing_open \o javelin.err
                                   ELSE Reason.failing_closed \o javelin.err,
                      0, request_id, timestamp), TRUE)

\* validate_request with the test-mode check ahead of the local rules
validate_request_test_mode_first(request, api_key, fail_open, javelin, request_id, timestamp) ==
    LET m      == Get(request, Key.method)
        method == IF IsStr(m) THEN m.v ELSE Method.unknown
        method_result ==
            validate_method_specific(request, method, request_id, timestamp)
    IN
    IF api_key = "test-mode"
    THEN ResultOk(ValidationResult(TRUE, Reason.test_pre \o method \o Reason.test_post,
                                   10, request_id, timestamp), FALSE)
    ELSE IF method_result.some THEN ResultOk(method_result.val, FALSE)
    ELSE IF javelin.ok
    THEN ResultOk(ValidationResult(javelin.is_valid,
                      IF javelin.is_valid THEN Reason.approved ELSE Reason.blocked,
                      IF javelin.is_valid THEN 9 ELSE 1,
                      request_id, timestamp), TRUE)
    ELSE ResultOk(ValidationResult(fail_open,
                      IF fail_open THEN Reason.failing_open \o javelin.err
                                   ELSE Reason.failing_closed \o javelin.err,
                      0, request_id, timestamp), TRUE)

\* validate_request handing the Guardrails client's error to its caller
validate_request_propagates(request, api_key, fail_open, javelin, request_id, timestamp) ==
    LET m      == Get(request, Key.method)
        method == IF IsStr(m) THEN m.v ELSE Method.unknown
        method_result ==
            validate_method_specific(request, method, request_id, timestamp)
    IN
    IF method_result.some THEN ResultOk(method_result.val, FALSE)
    ELSE IF api_key = "test-mode"
    THEN ResultOk(ValidationResult(TRUE, Reason.test_pre \o method \o Reason.test_post,
                                   10, request_id, timestamp), FALSE)
    ELSE IF javelin.ok
    THEN ResultOk(ValidationResult(javelin.is_valid,
                      IF javelin.is_valid THEN Reason.approved ELSE Reason.blocked,
                      IF javelin.is_valid THEN 9 ELSE 1,
                      request_id, timestamp), TRUE)
    ELSE [ok |-> FALSE,
          value |-> ValidationResult(FALSE, javelin.err, 0, request_id, timestamp),
          javelin_called |-> TRUE]

\* ValidationService::validate_request, given what the Guardrails client
\* answers if it is asked
validate_request(request, api_key, fail_open, javelin, request_id, timestamp) ==
    LET m      == Get(request, Key.method)
        method == IF IsStr(m) THEN m.v ELSE Method.unknown
        method_result ==
            validate_method_specific(request, method, request_id, timestamp)
    IN
    IF method_result.some THEN ResultOk(method_result.val, FALSE)
    ELSE IF api_key = "test-mode"
    THEN ResultOk(ValidationResult(TRUE, Reason.test_pre \o method \o Reason.test_post,
                                   10, request_id, timestamp), FALSE)
    ELSE IF javelin.ok
    THEN ResultOk(ValidationResult(javelin.is_valid,
                      IF javelin.is_valid THEN Reason.approved ELSE Reason.blocked,
                      IF javelin.is_valid THEN 9 ELSE 1,
                      request_id, timestamp), TRUE)
    ELSE ResultOk(ValidationResult(fail_open,
                      IF fail_open THEN Reason.failing_open \o javelin.err
                                   ELSE Reason.failing_closed \o javelin.err,
                      0, request_id, timestamp), TRUE)

\* ValidationService::validate_response
validate_response(response, api_key, fail_open, javelin, request_id, timestamp) ==
    LET result == validate_request(response, api_key, fail_open, javelin,
                                   request_id, timestamp)
    IN IF ~result.ok THEN result
       ELSE [result EXCEPT
                !.value.reason = replace(result.value.reason,
                                         Text.Request, Text.Response)]

-----------------------------------------------------------------------------
(* Sample messages *)

\* tool names, argument values, uris and prompt names of the sample requests
Sample ==
    [ \* "shell_exec"
      shell_exec |-> <<"s", "h", "e", "l", "l", "_", "e", "x", "e", "c">>,
      \* "Shell_Exec"
      Shell_Exec |-> <<"S", "h", "e", "l", "l", "_", "E", "x", "e", "c">>,
      \* "get_weather"
      get_weather |-> <<"g", "e", "t", "_", "w", "e", "a", "t", "h", "e",
          "r">>,
      \* "ls; rm -rf /"
      rm_rf |-> <<"l", "s", ";", "SP", "r", "m", "SP", "-", "r", "f", "SP",
          "/">>,
      \* "Paris"
      Paris |-> <<"P", "a", "r", "i", "s">>,
      \* "file:///etc/passwd"
      etc_passwd |-> <<"f", "i", "l", "e", ":", "/", "/", "/", "e", "t",
          "c", "/", "p", "a", "s", "s", "w", "d">>,
      \* "file:///tmp/a.txt"
      tmp_a |-> <<"f", "i", "l", "e", ":", "/", "/", "/", "t", "m", "p",
          "/", "a", ".", "t", "x", "t">>,
      \* "summarize"
      summarize |-> <<"s", "u", "m", "m", "a", "r", "i", "z", "e">>,
      \* "Ignore previous"
      Ignore_previous |-> <<"I", "g", "n", "o", "r", "e", "SP", "p", "r",
          "e", "v", "i", "o", "u", "s">>,
      \* keys of logged objects: "Token", "X-API-Key", "ok", "nested"
      Token |-> <<"T", "o", "k", "e", "n">>,
      X_API_Key |-> <<"X", "-", "A", "P", "I", "-", "K", "e", "y">>,
      ok |-> <<"o", "k">>,
      nested |-> <<"n", "e", "s", "t", "e", "d">> ]

\* a JSON-RPC message object; an Absent id, method, params or result is left out
Message(id, method, params, result) ==
    JObj(<<Member(Key.jsonrpc, JStr(Text.v2_0))>>
         \o (IF IsSome(id) THEN <<Member(Key.id, id)>> ELSE <<>>)
         \o (IF IsSome(method) THEN <<Member(Key.method, method)>> ELSE <<>>)
         \o (IF IsSome(params) THEN <<Member(Key.params, params)>> ELSE <<>>)
         \o (IF IsSome(result) THEN <<Member(Key.result, result)>> ELSE <<>>))

Request(id, method, params) == Message(id, JStr(method), params, Absent)

ToolCallParams(name, args) ==
    JObj((IF IsSome(name) THEN <<Member(Key.name, name)>> ELSE <<>>)
         \o (IF IsSome(args) THEN <<Member(Key.arguments, args)>> ELSE <<>>))

SampleToolNames == {Absent, JNum(7), JStr(Sample.shell_exec), JStr(Sample.Shell_Exec), JStr(Sample.get_weather)}

SampleArguments ==
    {Absent, JObj(<<>>), JObj(<<Member(Key.city, JStr(Sample.Paris))>>),
     JObj(<<Member(Key.cmd, JStr(Sample.rm_rf))>>)}

\* the requests validate_request is applied to
SampleRequests ==
    {Request(JNum(1), Method.tools_call, ToolCallParams(n, a)) :
        n \in SampleToolNames, a \in SampleArguments}
    \cup {Request(JNum(1), Method.tools_call, p) : p \in {Absent, JNull}}
    \cup {Request(JNum(1), Method.resources_read, JObj(<<Member(Key.uri, u)>>)) :
             u \in {JStr(Sample.etc_passwd), JStr(Sample.tmp_a), JNum(7)}}
    \cup {Request(JNum(1), Method.prompts_get, JObj(<<Member(Key.name, n)>>)) :
             n \in {JStr(Sample.summarize), JStr(Sample.Ignore_previous)}}
    \cup {Request(JNum(1), Method.tools_list, Absent),
          Request(Absent, Method.notifications_initialized, Absent),
          Request(JNum(1), Method.tools_list, ToolCallParams(JStr(Sample.shell_exec), Absent)),
          Message(JNum(1), Absent, Absent, JObj(<<>>)),
          Message(JNum(1), JNum(7), ToolCallParams(JStr(Sample.shell_exec), Absent), Absent)}

-----------------------------------------------------------------------------
(* logging.rs: what is written to the log                                   *)

SENSITIVE_KEYS ==
    { <<"a", "u", "t", "h", "o", "r", "i", "z", "a", "t", "i", "o", "n">>,
      <<"p", "r", "o", "x", "y", "-", "a", "u", "t", "h", "o", "r", "i", "z",
        "a", "t", "i", "o", "n">>,
      <<"x", "-", "a", "p", "i", "-", "k", "e", "y">>,
      <<"x", "-", "j", "a", "v", "e", "l", "i", "n", "-", "a", "p", "i", "k",
        "e", "y">>,
      <<"a", "p", "i", "_", "k", "e", "y">>,
      <<"a", "p", "i", "k", "e", "y">>,
      <<"t", "o", "k", "e", "n">>,
      <<"a", "c", "c", "e", "s", "s", "_", "t", "o", "k", "e", "n">>,
      <<"r", "e", "f", "r", "e", "s", "h", "_", "t", "o", "k", "e", "n">>,
      <<"p", "a", "s", "s", "w", "o", "r", "d">>,
      <<"s", "e", "c", "r", "e", "t">>,
      <<"c", "o", "o", "k", "i", "e">>,
      <<"s", "e", "t", "-", "c", "o", "o", "k", "i", "e">> }

\* str::to_ascii_lowercase: only A-Z change
to_ascii_lowercase(s) == [i \in 1..Len(s) |-> LowerChar(s[i])]

\* a key test that compares the key as it is written
is_sensitive_key_exact(key) == key \in SENSITIVE_KEYS

is_sensitive_key(key) == to_ascii_lowercase(key) \in SENSITIVE_KEYS

MAX == 128

\* str::len: the length in bytes, every character counted with its width
len(s) ==
    LET wider(w) == Cardinality({i \in 1..Len(s) : Len(CharBytes(s[i])) > w})
    IN  Len(s) + wider(1) + wider(2) + wider(3)

\* str::is_char_boundary: byte offset n is where a character starts or ends
is_char_boundary(s, n) == \E k \in 0..Len(s) : len(SubSeq(s, 1, k)) = n

\* &input[..n]: the characters in the first n bytes
slice_to(s, n) == SubSeq(s, 1, CHOOSE k \in 0..Len(s) : len(SubSeq(s, 1, k)) = n)

\* a call that returned, and a call that panicked
Returned(value) == [ok |-> TRUE, value |-> value]
Panicked == [ok |-> FALSE, value |-> <<>>]

\* the slice panics when byte MAX is not a character boundary
truncate_for_log(input) ==
    IF len(input) <= MAX
    THEN Returned(input)
    ELSE IF is_char_boundary(input, MAX)
         THEN Returned(slice_to(input, MAX) \o Text.ellipsis_open
                       \o DecStr(len(input)) \o Text.chars_close)
         ELSE Panicked

JArr(items) == [t |-> "arr", v |-> items]

\* n times the same one-byte character
Fill(n) == [i \in 1..n |-> "a"]

\* a sanitizer that logs an array as an empty one
sanitize_json_for_log_drops_items(value) ==
    IF value.t = "arr" THEN Returned(JArr(<<>>)) ELSE Returned(value)

RECURSIVE sanitize_json_for_log(_)
sanitize_json_for_log(value) ==
    CASE value.t = "obj" ->
           LET out == [i \in 1..Len(value.v) |->
                          IF is_sensitive_key(value.v[i].k)
                          THEN Returned(JStr(Text.redacted))
                          ELSE sanitize_json_for_log(value.v[i].val)]
           IN  IF \E i \in 1..Len(out) : ~out[i].ok
               THEN Panicked
               ELSE Returned(JObj([i \in 1..Len(out) |-> Member(value.v[i].k, out[i].value)]))
      [] value.t = "arr" ->
           LET out == [i \in 1..Len(value.v) |-> sanitize_json_for_log(value.v[i])]
           IN  IF \E i \in 1..Len(out) : ~out[i].ok
               THEN Panicked
               ELSE Returned(JArr([i \in 1..Len(out) |-> out[i].value]))
      [] value.t = "str" ->
           LET s == truncate_for_log(value.v)
           IN  IF s.ok THEN Returned(JStr(s.value)) ELSE Panicked
      [] OTHER -> Returned(value)


-----------------------------------------------------------------------------
(* spawn_target_server: the environment the target server is started with   *)

\* names of environment variables: the prefix of the proxy's own settings,
\* two of its settings, and names that do not begin with the prefix
Env ==
    [ \* "RAMPARTS_"
      prefix |-> <<"R", "A", "M", "P", "A", "R", "T", "S", "_">>,
      \* "RAMPARTS_TARGET_CMD"
      TARGET_CMD |-> <<"R", "A", "M", "P", "A", "R", "T", "S", "_", "T", "A", "R",
          "G", "E", "T", "_", "C", "M", "D">>,
      \* "RAMPARTS_BYPASS"
      BYPASS |-> <<"R", "A", "M", "P", "A", "R", "T", "S", "_", "B", "Y", "P", "A",
          "S", "S">>,
      \* "RAMPARTS"
      RAMPARTS |-> <<"R", "A", "M", "P", "A", "R", "T", "S">>,
      \* "PATH"
      PATH |-> <<"P", "A", "T", "H">>,
      \* "RUST_LOG"
      RUST_LOG |-> <<"R", "U", "S", "T", "_", "L", "O", "G">> ]

\* Command::new: no explicit variable, and the parent's environment inherited
Command_new == [envs |-> <<>>, env_clear |-> FALSE]

\* f with the mappings of g added or updated
Updated(f, g) == [k \in DOMAIN f \cup DOMAIN g |-> IF k \in DOMAIN g THEN g[k] ELSE f[k]]

\* Command::env for every variable the loop passes on
cmd_env(cmd, passed) == [cmd EXCEPT !.envs = Updated(cmd.envs, passed)]

\* Command::spawn: the child gets the explicit variables, on top of the
\* parent's environment unless env_clear was called
spawn(cmd, parent) == IF cmd.env_clear THEN cmd.envs ELSE Updated(parent, cmd.envs)

spawn_target_server(parent) ==
    spawn(cmd_env(Command_new, [k \in {k \in DOMAIN parent : ~starts_with(k, Env.prefix)} |-> parent[k]]), parent)

NotSpawned == [spawned |-> FALSE, vars |-> <<>>]

-----------------------------------------------------------------------------
(* proxy.rs: POST /validate                                                 *)

\* no response: nothing was posted, or the handler panicked before it answered
NoResponse == [status |-> 0, body |-> JNull]

\* a handler that answers a verdict of "not allowed" with HTTP 500
http_validate_request_500_on_block(request, result) ==
    IF ~sanitize_json_for_log(request).ok THEN NoResponse
    ELSE IF result.ok /\ result.value.allowed
    THEN [status |-> 200, body |-> JObj(<<Member(Key.valid, JBool(TRUE))>>)]
    ELSE [status |-> 500, body |-> JNull]

\* the handler validate_request of proxy.rs, given what
\* ValidationService::validate_request returns for the request
http_validate_request(request, result) ==
    IF ~sanitize_json_for_log(request).ok THEN NoResponse
    ELSE IF result.ok
    THEN [status |-> 200,
          body |-> JObj(<<Member(Key.valid, JBool(result.value.allowed)),
                          Member(Key.reason, JStr(result.value.reason)),
                          Member(Key.confidence, JNum(result.value.confidence)),
                          Member(Key.request_id, JStr(result.value.request_id)),
                          Member(Key.timestamp, JStr(result.value.timestamp))>>)]
    ELSE [status |-> 500, body |-> JNull]

-----------------------------------------------------------------------------
(* The stdio proxy (ramparts-mcp-proxy-stdio.rs): its messages              *)

\* payloads the client sends and payloads the target server sends; a name
\* stands for the bytes of one payload
ClientPayloads == {"c_garbage", "c_list_1", "c_notify", "c_shell_2"}

ServerPayloads == {"s_garbage", "s_result_1", "s_request_1", "s_notify"}

\* the payloads of a client that sends requests with ids of their own, and of
\* a server that answers them
RequestPayloads == {"c_list_1", "c_list_2"}

ResponsePayloads == {"s_result_1", "s_result_2"}

\* the payloads of peers that also send a string which is longer than MAX
\* bytes and has a two-byte character across byte MAX, in an argument
\* (client) and in the text of the payload (server)
LongClientPayloads == {"c_list_1", "c_long"}

LongServerPayloads == {"s_result_1", "s_long", "s_long_garbage"}

ParseOk(value) == [ok |-> TRUE, value |-> value]
ParseErr == [ok |-> FALSE, value |-> JNull]

\* serde_json::from_str::<Value>(&payload)
from_str(payload) ==
    CASE payload = "c_list_1" -> ParseOk(Request(JNum(1), Method.tools_list, Absent))
      [] payload = "c_list_2" -> ParseOk(Request(JNum(2), Method.tools_list, Absent))
      [] payload = "c_notify" ->
           ParseOk(Request(Absent, Method.notifications_initialized, Absent))
      [] payload = "c_shell_2" ->
           ParseOk(Request(JNum(2), Method.tools_call,
                           ToolCallParams(JStr(Sample.shell_exec), JObj(<<>>))))
      [] payload = "s_result_1" -> ParseOk(Message(JNum(1), Absent, Absent, JObj(<<>>)))
      [] payload = "s_result_2" -> ParseOk(Message(JNum(2), Absent, Absent, JObj(<<>>)))
      [] payload = "s_request_1" ->
           ParseOk(Request(JNum(1), Method.sampling_createMessage, Absent))
      [] payload = "s_notify" ->
           ParseOk(Request(Absent, Method.notifications_initialized, Absent))
      [] payload = "c_long" ->
           ParseOk(Request(JNum(1), Method.tools_list,
                           JObj(<<Member(Key.city, JStr(Fill(MAX - 1) \o <<"e_acute">>))>>)))
      [] payload = "s_long" ->
           ParseOk(Message(JNum(1), Absent, Absent, JStr(Fill(MAX - 35) \o <<"e_acute">>)))
      [] OTHER -> ParseErr

\* the text of a payload: JSON as its sender serialised it; of the payloads
\* that are not JSON one is longer than MAX bytes, with a two-byte character
\* across byte MAX, and the others are shorter than MAX bytes
payload_text(payload) ==
    IF from_str(payload).ok THEN to_string(from_str(payload).value)
    ELSE IF payload = "s_long_garbage" THEN Fill(MAX - 1) \o <<"e_acute">>
    ELSE <<>>

\* the client payloads on which the request preview of the client-to-server
\* worker panics: JSON that sanitize_json_for_log panics on
RequestPreviewPanics ==
    {p \in ClientPayloads \cup RequestPayloads \cup LongClientPayloads :
        from_str(p).ok /\ ~sanitize_json_for_log(from_str(p).value).ok}

\* the server payloads on which the response preview of the server-to-client
\* worker panics, when the debug log is enabled
ResponsePreviewPanics ==
    {p \in ServerPayloads \cup ResponsePayloads \cup LongServerPayloads :
        ~truncate_for_log(payload_text(p)).ok}

\* json!(request.get("id")): the id, or null when there is none
IdOrNull(message) ==
    IF IsSome(Get(message, Key.id)) THEN Get(message, Key.id) ELSE JNull

\* the request itself written back in place of an error object
blocked_request_echo(request, validation_result) == request

\* the error object the client-to-server worker builds for a blocked request
blocked_request_error(request, validation_result) ==
    JObj(<<Member(Key.jsonrpc, JStr(Text.v2_0)),
           Member(Key.id, IdOrNull(request)),
           Member(Key.error, JObj(<<
               Member(Key.code, JNum(-32603)),
               Member(Key.message, JStr(Text.request_blocked_ramparts)),
               Member(Key.data, JObj(<<
                   Member(Key.reason, JStr(validation_result.reason)),
                   Member(Key.blocked_by, JStr(Text.stdio_binary))>>))>>))>>)

\* the error object the server-to-client worker builds for a blocked response
blocked_response_error(response, validation_result) ==
    JObj(<<Member(Key.jsonrpc, JStr(Text.v2_0)),
           Member(Key.id, IdOrNull(response)),
           Member(Key.error, JObj(<<
               Member(Key.code, JNum(-32603)),
               Member(Key.message, JStr(Text.response_blocked_ramparts)),
               Member(Key.data, JObj(<<
                   Member(Key.reason, JStr(validation_result.reason)),
                   Member(Key.blocked_by, JStr(Text.stdio_binary))>>))>>))>>)

\* ValidationService::create_blocked_response
create_blocked_response(original_request, validation_result) ==
    JObj(<<Member(Key.jsonrpc, JStr(Text.v2_0)),
           Member(Key.id, IdOrNull(original_request)),
           Member(Key.error, JObj(<<
               Member(Key.code, JNum(-32600)),
               Member(Key.message, JStr(Text.request_blocked_javelin)),
               Member(Key.data, JObj(<<
                   Member(Key.reason, JStr(validation_result.reason)),
                   Member(Key.confidence, JNum(validation_result.confidence)),
                   Member(Key.request_id, JStr(validation_result.request_id)),
                   Member(Key.timestamp, JStr(validation_result.timestamp)),
                   Member(Key.blocked_by, JStr(Text.ramparts_proxy))>>))>>))>>)

\* ValidationService::create_error_response
create_error_response(original_request, error_message, now) ==
    JObj(<<Member(Key.jsonrpc, JStr(Text.v2_0)),
           Member(Key.id, IdOrNull(original_request)),
           Member(Key.error, JObj(<<
               Member(Key.code, JNum(-32603)),
               Member(Key.message, JStr(Text.internal_validation_error)),
               Member(Key.data, JObj(<<
                   Member(Key.error, JStr(error_message)),
                   Member(Key.timestamp, JStr(now)),
                   Member(Key.service, JStr(Text.ramparts_proxy))>>))>>))>>)

\* the body of a frame: the payload as read, or an error object (which the
\* worker serialises with serde_json::to_string)
Raw(payload) == [t |-> "raw", v |-> payload]

\* what a worker is about to write: kind is "payload" or "error"
Frame(kind, body) == [kind |-> kind, body |-> body]
NoFrame == Frame("none", Raw("none"))

\* one write_all on a stream: the header or the payload bytes of the n-th
\* frame of worker by
Chunk(by, n, part, frame) ==
    [by |-> by, n |-> n, part |-> part, kind |-> frame.kind, body |-> frame.body]

\* write_jsonrpc_message: two write_all calls, the header then the payload
FrameChunks(by, n, frame) ==
    <<Chunk(by, n, "header", frame), Chunk(by, n, "payload", frame)>>

\* a remove that leaves the entry in the map
MapRemove_keeps(map, key) == map

\* an insert that files every request under the null id
MapInsert_under_null(map, key, value) ==
    [k \in (DOMAIN map) \cup {JNull} |-> IF k = JNull THEN value ELSE map[k]]

\* an insert that leaves the map as it was
MapInsert_forgets(map, key, value) == map

\* HashMap::insert and HashMap::remove on the request tracker
MapInsert(map, key, value) ==
    [k \in (DOMAIN map) \cup {key} |-> IF k = key THEN value ELSE map[k]]

MapRemove(map, key) == [k \in (DOMAIN map) \ {key} |-> map[k]]

LogEntry(payload, parsed, verdict, javelin) ==
    [payload |-> payload, parsed |-> parsed, verdict |-> verdict, javelin |-> javelin]

\* how the Guardrails client answered, when the call reached it
JavelinSeen(result, javelin) ==
    IF ~result.javelin_called THEN "none"
    ELSE IF javelin.ok THEN "ok" ELSE "err"

\* a response carries a result or an error and no method
IsResponse(message) ==
    /\ ~IsSome(Get(message, Key.method))
    /\ IsSome(Get(message, Key.result)) \/ IsSome(Get(message, Key.error))

HasNonNullId(message) ==
    IsSome(Get(message, Key.id)) /\ Get(message, Key.id) # JNull

-----------------------------------------------------------------------------
(* The stdio proxy: main and the two workers.  A worker takes one step per  *)
(* await it can be suspended at with an effect the other worker can see.    *)

ApiKeys == {"test-mode", "jv-key"}

InitConfig ==
    /\ apiKey \in ApiKeys
    /\ failOpen \in BOOLEAN

CodecIdle ==
    /\ producer = "framed"
    /\ codecPc = "idle"
    /\ sent = <<>>
    /\ wire = <<>>
    /\ received = <<>>

NoCall == [fn |-> "none", message |-> Absent, javelin |-> JavelinOk(TRUE)]

NoResult == [ok |-> TRUE, value |-> ValidationResult(TRUE, <<>>, 0, <<>>, <<>>), javelin_called |-> FALSE]

VsIdle ==
    /\ vsCall = NoCall
    /\ vsResult = NoResult
    /\ vsCount = 0

\* nothing was logged, answered or spawned on its own
NoLogCall == [fn |-> "none", arg |-> JNull]

NoHttpCall == [request |-> JNull, called |-> FALSE, result |-> NoResult]

AuxIdle ==
    /\ logCall = NoLogCall
    /\ logResult = Returned(JNull)
    /\ httpCall = NoHttpCall
    /\ httpResponse = NoResponse
    /\ parentEnv = <<>>
    /\ childEnv = NotSpawned

\* the uuid and the time of the n-th call
Uuid(n) == Text.uuid \o DecStr(n)
Now(n) == Text.time \o DecStr(n)

ProxyIdle ==
    /\ mainPc = "idle" /\ childKilled = FALSE
    /\ c2sPc = "idle" /\ c2sOut = NoFrame /\ c2sExit = "running" /\ c2sLog = <<>>
    /\ s2cPc = "idle" /\ s2cOut = NoFrame /\ s2cExit = "running" /\ s2cLog = <<>>
    /\ request_tracker = <<>>
    /\ child_stdin = <<>>
    /\ stdout = <<>>
    /\ unflushed = {}
    /\ outstanding = {}
    /\ traffic = "any"

\* the payloads the peers can send next
ClientBound == IF traffic = "matching" THEN MaxRequests ELSE MaxClientMsgs

ClientMaySend ==
    IF traffic = "matching"
    THEN {p \in RequestPayloads : \A i \in 1..Len(c2sLog) : c2sLog[i].payload # p}
    ELSE IF traffic = "long" THEN LongClientPayloads
    ELSE ClientPayloads

ServerMaySend ==
    IF traffic = "matching"
    THEN {p \in ResponsePayloads : Get(from_str(p).value, Key.id) \in outstanding}
    ELSE IF traffic = "long" THEN LongServerPayloads
    ELSE ServerPayloads

\* the state main leaves when both tasks are spawned
Running ==
    /\ CodecIdle
    /\ VsIdle
    /\ mainPc = "select" /\ childKilled = FALSE
    /\ c2sPc = "read" /\ c2sOut = NoFrame /\ c2sExit = "running" /\ c2sLog = <<>>
    /\ s2cPc = "read" /\ s2cOut = NoFrame /\ s2cExit = "running" /\ s2cLog = <<>>
    /\ request_tracker = <<>>
    /\ child_stdin = <<>>
    /\ stdout = <<>>
    /\ unflushed = {}
    /\ outstanding = {}

\* the proxy between a client and a server that send any payloads
Init ==
    /\ InitConfig
    /\ Running
    /\ AuxIdle
    /\ traffic = "any"

\* the same proxy between a client and a server whose traffic matches
InitCorrelation ==
    /\ InitConfig
    /\ Running
    /\ AuxIdle
    /\ traffic = "matching"

\* the runtime drops both tasks when main returns
TasksAlive == mainPc # "exited"

\* the request the client-to-server worker is working on
C2SPayload == c2sLog[Len(c2sLog)].payload
C2SRequest == from_str(C2SPayload).value

\* proxy_client_to_server: read_jsonrpc_message returns None or Some(Err)
C2SReadEnds ==
    /\ TasksAlive /\ c2sPc = "read"
    /\ \E how \in {"eof", "read_err"} : c2sExit' = how
    /\ c2sPc' = "done"
    /\ UNCHANGED <<c2sOut, c2sLog, s2cVars, sharedVars, mainVars, envVars, configVars, codecVars, vsVars, auxVars>>

\* proxy_client_to_server: one payload read, parsed and validated
C2SRead ==
    /\ TasksAlive /\ c2sPc = "read" /\ Len(c2sLog) < ClientBound
    /\ \E payload \in ClientMaySend, javelin \in JavelinOutcomes :
          LET n       == Len(c2sLog) + 1
              parsed  == from_str(payload)
              request == parsed.value
              result  == validate_request(request, apiKey, failOpen, javelin, Uuid(2 * n), Now(2 * n))
          IN
          /\ c2sExit' = IF payload \in RequestPreviewPanics THEN "panic" ELSE c2sExit
          /\ IF payload \in RequestPreviewPanics
             THEN \* sanitize_json_for_log panics and the task unwinds
                  /\ c2sLog' = Append(c2sLog, LogEntry(payload, TRUE, "none", "none"))
                  /\ c2sOut' = c2sOut
                  /\ c2sPc' = "done"
             ELSE
             IF ~parsed.ok
             THEN \* malformed: forwarded as it is
                  /\ c2sLog' = Append(c2sLog, LogEntry(payload, FALSE, "none", "none"))
                  /\ c2sOut' = Frame("payload", Raw(payload))
                  /\ c2sPc' = "forward"
             ELSE IF result.ok
             THEN IF result.value.allowed
                  THEN /\ c2sLog' = Append(c2sLog, LogEntry(payload, TRUE, "allowed", JavelinSeen(result, javelin)))
                       /\ c2sOut' = Frame("payload", Raw(payload))
                       /\ c2sPc' = IF IsSome(Get(request, Key.id)) THEN "insert" ELSE "forward"
                  ELSE /\ c2sLog' = Append(c2sLog, LogEntry(payload, TRUE, "blocked", JavelinSeen(result, javelin)))
                       /\ c2sOut' = Frame("error", blocked_request_error(request, result.value))
                       /\ c2sPc' = "out_header"
             ELSE \* Err(e) from the validation service
                  /\ c2sLog' = Append(c2sLog, LogEntry(payload, TRUE, "failed", JavelinSeen(result, javelin)))
                  /\ IF failOpen
                     THEN c2sOut' = Frame("payload", Raw(payload)) /\ c2sPc' = "forward"
                     ELSE /\ c2sOut' = Frame("error", create_error_response(request, javelin.err, Now(2 * n)))
                          /\ c2sPc' = "out_header"
    /\ UNCHANGED <<s2cVars, sharedVars, mainVars, envVars, configVars, codecVars, vsVars, auxVars>>

\* an insert that comes after the write: the frame first, then the entry
C2SInsert_after_write ==
    /\ TasksAlive /\ c2sPc = "insert"
    /\ \/ /\ c2sOut # NoFrame
          /\ child_stdin' = child_stdin \o FrameChunks("c2s", Len(c2sLog), c2sOut)
          /\ outstanding' = outstanding \cup {Get(C2SRequest, Key.id)}
          /\ c2sOut' = NoFrame
          /\ UNCHANGED <<c2sPc, request_tracker>>
       \/ /\ c2sOut = NoFrame
          /\ request_tracker' = MapInsert(request_tracker, Get(C2SRequest, Key.id), C2SPayload)
          /\ c2sPc' = "read"
          /\ UNCHANGED <<c2sOut, child_stdin, outstanding>>
    /\ UNCHANGED <<c2sExit, c2sLog, s2cVars, stdout, unflushed, mainVars, envVars, configVars, codecVars, vsVars, auxVars>>

\* proxy_client_to_server: tracker.insert(id.clone(), request.clone())
C2SInsert ==
    /\ TasksAlive /\ c2sPc = "insert"
    /\ request_tracker' = MapInsert(request_tracker, Get(C2SRequest, Key.id), C2SPayload)
    /\ c2sPc' = "forward"
    /\ UNCHANGED <<c2sOut, c2sExit, c2sLog, s2cVars, child_stdin, stdout, unflushed, outstanding, mainVars, envVars, configVars, codecVars, vsVars, auxVars>>

\* a forward that puts the frame ahead of the frames already written
C2SForward_overtakes ==
    /\ TasksAlive /\ c2sPc = "forward"
    /\ child_stdin' = FrameChunks("c2s", Len(c2sLog), c2sOut) \o child_stdin
    /\ outstanding' = IF c2sLog[Len(c2sLog)].parsed /\ HasNonNullId(C2SRequest)
                      THEN outstanding \cup {Get(C2SRequest, Key.id)}
                      ELSE outstanding
    /\ c2sOut' = NoFrame
    /\ c2sPc' = "read"
    /\ unflushed' = {u \in unflushed : u[1] # "child_stdin"}
    /\ UNCHANGED <<c2sExit, c2sLog, s2cVars, request_tracker, stdout, mainVars, envVars, configVars, codecVars, vsVars, auxVars>>

\* a forward that drops the message and goes back to the read
C2SForward_drops ==
    /\ TasksAlive /\ c2sPc = "forward"
    /\ c2sOut' = NoFrame
    /\ c2sPc' = "read"
    /\ UNCHANGED <<c2sExit, c2sLog, s2cVars, sharedVars, mainVars, envVars, configVars, codecVars, vsVars, auxVars>>

\* proxy_client_to_server: write_jsonrpc_message(&mut writer, &payload) and
\* writer.flush(): the frame reaches the child's stdin
C2SForward ==
    /\ TasksAlive /\ c2sPc = "forward"
    /\ child_stdin' = child_stdin \o FrameChunks("c2s", Len(c2sLog), c2sOut)
    /\ outstanding' = IF c2sLog[Len(c2sLog)].parsed /\ HasNonNullId(C2SRequest)
                      THEN outstanding \cup {Get(C2SRequest, Key.id)}
                      ELSE outstanding
    /\ c2sOut' = NoFrame
    /\ c2sPc' = "read"
    /\ unflushed' = {u \in unflushed : u[1] # "child_stdin"}
    /\ UNCHANGED <<c2sExit, c2sLog, s2cVars, request_tracker, stdout, mainVars, envVars, configVars, codecVars, vsVars, auxVars>>

\* proxy_client_to_server: the write or the flush fails and `?` returns Err
C2SForwardFails ==
    /\ TasksAlive /\ c2sPc = "forward"
    /\ c2sPc' = "done" /\ c2sExit' = "write_err"
    /\ UNCHANGED <<c2sOut, c2sLog, s2cVars, sharedVars, mainVars, envVars, configVars, codecVars, vsVars, auxVars>>

\* write_jsonrpc_message(&mut tokio::io::stdout(), &out): write_all(header)
C2SWriteHeader ==
    /\ TasksAlive /\ c2sPc = "out_header"
    /\ stdout' = Append(stdout, Chunk("c2s", Len(c2sLog), "header", c2sOut))
    /\ unflushed' = unflushed \cup {<<"stdout", "c2s">>}
    /\ c2sPc' = "out_payload"
    /\ UNCHANGED <<c2sOut, c2sExit, c2sLog, s2cVars, request_tracker, child_stdin, outstanding, mainVars, envVars, configVars, codecVars, vsVars, auxVars>>

\* write_jsonrpc_message(&mut tokio::io::stdout(), &out): write_all(bytes)
C2SWritePayload ==
    /\ TasksAlive /\ c2sPc = "out_payload"
    /\ stdout' = Append(stdout, Chunk("c2s", Len(c2sLog), "payload", c2sOut))
    /\ unflushed' = unflushed \cup {<<"stdout", "c2s">>}
    /\ c2sOut' = NoFrame
    /\ c2sPc' = "read"
    /\ UNCHANGED <<c2sExit, c2sLog, s2cVars, request_tracker, child_stdin, outstanding, mainVars, envVars, configVars, codecVars, vsVars, auxVars>>

\* a write_all on stdout fails and `?` returns Err
C2SWriteFails ==
    /\ TasksAlive /\ c2sPc \in {"out_header", "out_payload"}
    /\ c2sPc' = "done" /\ c2sExit' = "write_err"
    /\ UNCHANGED <<c2sOut, c2sLog, s2cVars, sharedVars, mainVars, envVars, configVars, codecVars, vsVars, auxVars>>

\* proxy_server_to_client: read_jsonrpc_message returns None or Some(Err)
S2CReadEnds ==
    /\ TasksAlive /\ s2cPc = "read"
    /\ \E how \in {"eof", "read_err"} : s2cExit' = how
    /\ s2cPc' = "done"
    /\ UNCHANGED <<s2cOut, s2cLog, c2sVars, sharedVars, mainVars, envVars, configVars, codecVars, vsVars, auxVars>>

\* proxy_server_to_client: one payload read and parsed, its id removed from
\* the tracker, the message validated
S2CRead ==
    /\ TasksAlive /\ s2cPc = "read"
    /\ traffic = "matching" \/ Len(s2cLog) < MaxServerMsgs
    /\ \E payload \in ServerMaySend, javelin \in JavelinOutcomes, debug \in BOOLEAN :
          LET n        == Len(s2cLog) + 1
              parsed   == from_str(payload)
              response == parsed.value
              id       == Get(response, Key.id)
              result   == validate_response(response, apiKey, failOpen, javelin, Uuid(2 * n + 1), Now(2 * n + 1))
          IN
          IF debug /\ payload \in ResponsePreviewPanics
          THEN \* the debug log is enabled and truncate_for_log panics on
               \* the payload: the task unwinds
               /\ s2cLog' = Append(s2cLog, LogEntry(payload, parsed.ok, "none", "none"))
               /\ s2cOut' = s2cOut
               /\ s2cPc' = "done"
               /\ s2cExit' = "panic"
               /\ UNCHANGED <<request_tracker, outstanding>>
          ELSE /\ s2cPc' = "out_header"
               /\ s2cExit' = s2cExit
               /\ IF ~parsed.ok
                  THEN \* malformed: forwarded as it is
                       /\ s2cLog' = Append(s2cLog, LogEntry(payload, FALSE, "none", "none"))
                       /\ s2cOut' = Frame("payload", Raw(payload))
                       /\ UNCHANGED <<request_tracker, outstanding>>
                  ELSE /\ request_tracker' = IF IsSome(id) THEN MapRemove(request_tracker, id)
                                             ELSE request_tracker
                       /\ outstanding' = IF IsResponse(response) /\ IsSome(id)
                                         THEN outstanding \ {id} ELSE outstanding
                       /\ IF result.ok
                          THEN IF result.value.allowed
                               THEN /\ s2cLog' = Append(s2cLog, LogEntry(payload, TRUE, "allowed", JavelinSeen(result, javelin)))
                                    /\ s2cOut' = Frame("payload", Raw(payload))
                               ELSE /\ s2cLog' = Append(s2cLog, LogEntry(payload, TRUE, "blocked", JavelinSeen(result, javelin)))
                                    /\ s2cOut' = Frame("error", blocked_response_error(response, result.value))
                          ELSE \* Err(e) from the validation service: forwarded
                               /\ s2cLog' = Append(s2cLog, LogEntry(payload, TRUE, "failed", JavelinSeen(result, javelin)))
                               /\ s2cOut' = Frame("payload", Raw(payload))
    /\ UNCHANGED <<c2sVars, child_stdin, stdout, unflushed, mainVars, envVars, configVars, codecVars, vsVars, auxVars>>

\* write_jsonrpc_message(&mut tokio::io::stdout(), ..): write_all(header)
S2CWriteHeader ==
    /\ TasksAlive /\ s2cPc = "out_header"
    /\ stdout' = Append(stdout, Chunk("s2c", Len(s2cLog), "header", s2cOut))
    /\ unflushed' = unflushed \cup {<<"stdout", "s2c">>}
    /\ s2cPc' = "out_payload"
    /\ UNCHANGED <<s2cOut, s2cExit, s2cLog, c2sVars, request_tracker, child_stdin, outstanding, mainVars, envVars, configVars, codecVars, vsVars, auxVars>>

\* write_jsonrpc_message(&mut tokio::io::stdout(), ..): write_all(bytes)
S2CWritePayload ==
    /\ TasksAlive /\ s2cPc = "out_payload"
    /\ stdout' = Append(stdout, Chunk("s2c", Len(s2cLog), "payload", s2cOut))
    /\ unflushed' = unflushed \cup {<<"stdout", "s2c">>}
    /\ s2cOut' = NoFrame
    /\ s2cPc' = "read"
    /\ UNCHANGED <<s2cExit, s2cLog, c2sVars, request_tracker, child_stdin, outstanding, mainVars, envVars, configVars, codecVars, vsVars, auxVars>>

\* a write_all on stdout fails and `?` returns Err
S2CWriteFails ==
    /\ TasksAlive /\ s2cPc \in {"out_header", "out_payload"}
    /\ s2cPc' = "done" /\ s2cExit' = "write_err"
    /\ UNCHANGED <<s2cOut, s2cLog, c2sVars, sharedVars, mainVars, envVars, configVars, codecVars, vsVars, auxVars>>

\* how the tasks that have finished ended
Finished ==
    (IF c2sPc = "done" THEN {c2sExit} ELSE {}) \cup (IF s2cPc = "done" THEN {s2cExit} ELSE {})

\* a main whose child is not killed when its handle is dropped
MainSelect_without_kill_on_drop ==
    /\ mainPc = "select"
    /\ \E exit \in Finished :
          /\ mainPc' = IF exit = "panic" THEN "exited" ELSE "kill"
          /\ childKilled' = childKilled
    /\ UNCHANGED <<c2sVars, s2cVars, sharedVars, envVars, configVars, codecVars, vsVars, auxVars>>

\* main: tokio::select! returns when either task has finished.  A task that
\* returned sends main on to child.kill(); for a task that panicked, result?
\* makes main return at once, and the child, spawned with kill_on_drop(true),
\* is killed when main drops its handle.
MainSelect ==
    /\ mainPc = "select"
    /\ \E exit \in Finished :
          /\ mainPc' = IF exit = "panic" THEN "exited" ELSE "kill"
          /\ childKilled' = (childKilled \/ exit = "panic")
    /\ UNCHANGED <<c2sVars, s2cVars, sharedVars, envVars, configVars, codecVars, vsVars, auxVars>>

\* main: child.kill().await, then main returns
MainKill ==
    /\ mainPc = "kill"
    /\ childKilled' = TRUE
    /\ mainPc' = "exited"
    /\ UNCHANGED <<c2sVars, s2cVars, sharedVars, envVars, configVars, codecVars, vsVars, auxVars>>

Next ==
    \/ C2SReadEnds \/ C2SRead \/ C2SInsert \/ C2SForward \/ C2SForwardFails
    \/ C2SWriteHeader \/ C2SWritePayload \/ C2SWriteFails
    \/ S2CReadEnds \/ S2CRead \/ S2CWriteHeader \/ S2CWritePayload \/ S2CWriteFails
    \/ MainSelect \/ MainKill

Spec == Init /\ [][Next]_vars

SpecCorrelation == InitCorrelation /\ [][Next]_vars

\* the proxy between peers that also send the long payloads
InitTermination ==
    /\ InitConfig
    /\ AuxIdle
    /\ Running
    /\ traffic = "long"

\* main is a task of the runtime: it is polled again when a JoinHandle it
\* selects on completes, and when child.kill() completes
SpecTermination ==
    InitTermination /\ [][Next]_vars /\ WF_vars(MainSelect) /\ WF_vars(MainKill)

-----------------------------------------------------------------------------
(* The codec driven by a peer: the peer writes frames (or lines), closes    *)
(* the stream, and the reader calls read_jsonrpc_message until EOF or error *)

RECURSIVE SeqsUpTo(_, _)
SeqsUpTo(S, n) ==
    IF n = 0 THEN {<<>>}
    ELSE LET shorter == SeqsUpTo(S, n - 1) IN
         shorter \cup {Append(s, c) : s \in {t \in shorter : Len(t) = n - 1}, c \in S}

Payloads == SeqsUpTo(PayloadChars, MaxPayloadLen)

\* one JSON value per line: no line break inside, something left after trim
JsonLines == {l \in SeqsUpTo(LineChars, MaxPayloadLen) : trim(l) # <<>>}

InitCodec ==
    /\ apiKey = "jv-key" /\ failOpen = FALSE
    /\ VsIdle
    /\ AuxIdle
    /\ ProxyIdle
    /\ producer \in {"framed", "ndjson"}
    /\ codecPc = "write"
    /\ sent = <<>>
    /\ wire = <<>>
    /\ received = <<>>

\* the peer writes one frame with write_jsonrpc_message
CodecWriteFrame ==
    /\ codecPc = "write" /\ producer \in {"framed", "cut"} /\ Len(sent) < MaxFrames
    /\ \E p \in Payloads :
          /\ sent' = Append(sent, p)
          /\ wire' = wire \o write_jsonrpc_message(p)
    /\ UNCHANGED <<producer, codecPc, received, configVars, vsVars, proxyVars, auxVars>>

\* the peer writes one JSON value and a line break, without a header
CodecWriteLine ==
    /\ codecPc = "write" /\ producer = "ndjson" /\ Len(sent) < MaxFrames
    /\ \E l \in JsonLines :
          /\ sent' = Append(sent, l)
          /\ wire' = wire \o as_bytes(l) \o <<"LF">>
    /\ UNCHANGED <<producer, codecPc, received, configVars, vsVars, proxyVars, auxVars>>

\* the peer closes the stream
CodecClose ==
    /\ codecPc = "write"
    /\ codecPc' = "read"
    /\ UNCHANGED <<producer, sent, wire, received, configVars, vsVars, proxyVars, auxVars>>

\* one call of read_jsonrpc_message; the caller's loop ends on None or Err
CodecRead ==
    /\ codecPc = "read"
    /\ LET r == read_jsonrpc_message(wire) IN
          /\ received' = Append(received, [res |-> r.res, payload |-> r.payload])
          /\ wire' = r.rest
          /\ codecPc' = IF r.res = "ok" THEN "read" ELSE "done"
    /\ UNCHANGED <<producer, sent, configVars, vsVars, proxyVars, auxVars>>

NextCodec == CodecWriteFrame \/ CodecWriteLine \/ CodecClose \/ CodecRead

SpecCodec == InitCodec /\ [][NextCodec]_vars

\* a peer whose stream ends in the middle of a frame
InitCodecCut ==
    /\ apiKey = "jv-key" /\ failOpen = FALSE
    /\ VsIdle
    /\ AuxIdle
    /\ ProxyIdle
    /\ producer = "cut"
    /\ codecPc = "write"
    /\ sent = <<>>
    /\ wire = <<>>
    /\ received = <<>>

\* the stream ends after some but not all bytes of one more frame
CodecCut ==
    /\ codecPc = "write" /\ producer = "cut" /\ Len(sent) < MaxFrames
    /\ \E p \in Payloads :
          \E k \in 1..(Len(write_jsonrpc_message(p)) - 1) :
              wire' = wire \o SubSeq(write_jsonrpc_message(p), 1, k)
    /\ codecPc' = "read"
    /\ UNCHANGED <<producer, sent, received, configVars, vsVars, proxyVars, auxVars>>

NextCodecCut == CodecWriteFrame \/ CodecCut \/ CodecRead

SpecCodecCut == InitCodecCut /\ [][NextCodecCut]_vars

-----------------------------------------------------------------------------
(* The validation service called on its own, as the HTTP gateway and the    *)
(* two workers call it                                                      *)

InitValidate ==
    /\ InitConfig
    /\ CodecIdle
    /\ AuxIdle
    /\ ProxyIdle
    /\ VsIdle

\* one call of ValidationService::validate_request
ValidateRequestCall ==
    /\ vsCount < MaxValidations
    /\ \E request \in SampleRequests, javelin \in JavelinOutcomes :
          /\ vsCall' = [fn |-> "validate_request", message |-> request, javelin |-> javelin]
          /\ vsResult' = validate_request(request, apiKey, failOpen, javelin, Uuid(vsCount + 1), Now(vsCount + 1))
    /\ vsCount' = vsCount + 1
    /\ UNCHANGED <<configVars, codecVars, proxyVars, auxVars>>

\* one call of ValidationService::validate_response
ValidateResponseCall ==
    /\ vsCount < MaxValidations
    /\ \E response \in SampleRequests, javelin \in JavelinOutcomes :
          /\ vsCall' = [fn |-> "validate_response", message |-> response, javelin |-> javelin]
          /\ vsResult' = validate_response(response, apiKey, failOpen, javelin, Uuid(vsCount + 1), Now(vsCount + 1))
    /\ vsCount' = vsCount + 1
    /\ UNCHANGED <<configVars, codecVars, proxyVars, auxVars>>

\* the bodies posted to /validate: the sample requests, and a tools/call
\* whose argument is a string with a two-byte character across byte MAX
HttpRequests ==
    SampleRequests
    \cup {Request(JNum(1), Method.tools_call,
             ToolCallParams(JStr(Sample.get_weather),
                 JObj(<<Member(Key.city, JStr(Fill(MAX - 1) \o <<"e_acute">>))>>)))}

\* one POST /validate
HttpValidate ==
    /\ httpCall = NoHttpCall
    /\ \E request \in HttpRequests, javelin \in JavelinOutcomes :
          LET result == validate_request(request, apiKey, failOpen, javelin, Uuid(vsCount + 1), Now(vsCount + 1))
          IN  /\ httpResponse' = http_validate_request(request, result)
              /\ IF sanitize_json_for_log(request).ok
                 THEN /\ vsCall' = [fn |-> "validate_request", message |-> request, javelin |-> javelin]
                      /\ vsResult' = result
                      /\ httpCall' = [request |-> request, called |-> TRUE, result |-> result]
                 ELSE /\ UNCHANGED <<vsCall, vsResult>>
                      /\ httpCall' = [request |-> request, called |-> FALSE, result |-> NoResult]
    /\ vsCount' = vsCount + 1
    /\ UNCHANGED <<configVars, codecVars, proxyVars, logVars, spawnVars>>

NextValidate == ValidateRequestCall \/ ValidateResponseCall

NextHttp == HttpValidate

\* the gateway answering one request
SpecHttp == InitValidate /\ [][NextHttp]_vars

SpecValidate == InitValidate /\ [][NextValidate]_vars

-----------------------------------------------------------------------------
(* The log sanitizer called on its own, on strings around MAX bytes         *)

\* strings shorter than, as long as and longer than MAX bytes, with and without
\* a multi-byte character around byte MAX
LogStrings ==
    {Fill(n) : n \in {0, 1, MAX - 1, MAX, MAX + 1, MAX + MaxOver}}
    \cup {Fill(n) \o <<c>> \o Fill(m) : n \in (MAX - 2)..MAX, c \in {"e_acute", "ellipsis"}, m \in 0..MaxOver}

\* JSON values that hold such a string: bare, under a plain key, under a
\* sensitive key, in an array, and nested below both kinds of key
LogValues ==
    {JNull, JNum(7)}
    \cup {JStr(s) : s \in LogStrings}
    \cup {JObj(<<Member(Sample.ok, JStr(s))>>) : s \in LogStrings}
    \cup {JObj(<<Member(Sample.Token, JStr(s)), Member(Key.id, JNum(1))>>) : s \in LogStrings}
    \cup {JArr(<<JStr(s), JNum(7)>>) : s \in LogStrings}
    \cup {JObj(<<Member(Sample.nested, JObj(<<Member(Sample.ok, JStr(s))>>)),
                 Member(Sample.X_API_Key, JArr(<<JStr(s)>>))>>) : s \in LogStrings}

InitLog ==
    /\ apiKey = "jv-key" /\ failOpen = FALSE
    /\ CodecIdle
    /\ VsIdle
    /\ ProxyIdle
    /\ AuxIdle

\* one call of truncate_for_log
TruncateCall ==
    /\ logCall = NoLogCall
    /\ \E input \in LogStrings :
          /\ logCall' = [fn |-> "truncate_for_log", arg |-> JStr(input)]
          /\ logResult' = truncate_for_log(input)
    /\ UNCHANGED <<configVars, codecVars, vsVars, proxyVars, httpVars, spawnVars>>

\* one call of sanitize_json_for_log
SanitizeCall ==
    /\ logCall = NoLogCall
    /\ \E value \in LogValues :
          /\ logCall' = [fn |-> "sanitize_json_for_log", arg |-> value]
          /\ logResult' = sanitize_json_for_log(value)
    /\ UNCHANGED <<configVars, codecVars, vsVars, proxyVars, httpVars, spawnVars>>

\* the sanitizer called on what it returned
SanitizeAgain ==
    /\ logCall.fn = "sanitize_json_for_log"
    /\ logResult.ok
    /\ logCall' = [fn |-> "sanitize_json_for_log", arg |-> logResult.value]
    /\ logResult' = sanitize_json_for_log(logResult.value)
    /\ UNCHANGED <<configVars, codecVars, vsVars, proxyVars, httpVars, spawnVars>>

NextLog == TruncateCall \/ SanitizeCall \/ SanitizeAgain

SpecLog == InitLog /\ [][NextLog]_vars

\* the messages whose preview a worker logs: requests and responses that
\* hold a string under a plain key or under a sensitive key, at the top of
\* params or result or one object below
PreviewMessages ==
    LET strings == {Sample.Paris, Sample.get_weather, Sample.shell_exec, Sample.Shell_Exec,
                    Sample.rm_rf, Sample.etc_passwd, Sample.tmp_a, Sample.summarize,
                    Sample.Ignore_previous}
        flat    == {JObj(<<Member(k, JStr(str))>>) :
                       k \in {Sample.ok, Sample.Token, Sample.X_API_Key}, str \in strings}
        bodies  == flat \cup {JObj(<<Member(Sample.nested, o)>>) : o \in flat}
    IN  {Request(JNum(1), Method.tools_call, b) : b \in bodies}
        \cup {Message(JNum(1), Absent, Absent, b) : b \in bodies}

\* proxy_client_to_server with the debug log enabled: the preview of a
\* payload that is JSON is sanitize_json_for_log, to_string, truncate_for_log
RequestPreview ==
    /\ logCall = NoLogCall
    /\ \E json \in PreviewMessages :
          LET redacted == sanitize_json_for_log(json)
          IN  /\ logCall' = [fn |-> "request_preview", arg |-> json]
              /\ logResult' = IF redacted.ok THEN truncate_for_log(to_string(redacted.value))
                               ELSE Panicked
    /\ UNCHANGED <<configVars, codecVars, vsVars, proxyVars, httpVars, spawnVars>>

\* proxy_server_to_client with the debug log enabled: the preview is
\* truncate_for_log of the payload as it was read
ResponsePreview ==
    /\ logCall = NoLogCall
    /\ \E json \in PreviewMessages :
          /\ logCall' = [fn |-> "response_preview", arg |-> json]
          /\ logResult' = truncate_for_log(to_string(json))
    /\ UNCHANGED <<configVars, codecVars, vsVars, proxyVars, httpVars, spawnVars>>

NextPreview == RequestPreview \/ ResponsePreview

\* one worker logging the preview of one payload
SpecPreview == InitLog /\ [][NextPreview]_vars

-----------------------------------------------------------------------------
(* The target server spawned from every environment the proxy can have      *)

\* variables the proxy may or may not have in its environment
OptionalNames == {Env.BYPASS, Env.RAMPARTS, Env.PATH, Env.RUST_LOG}

EnvValues == {"v1", "v2"}

\* main reaches the spawn only with RAMPARTS_TARGET_CMD set
InitSpawn ==
    /\ apiKey = "jv-key" /\ failOpen = FALSE
    /\ CodecIdle
    /\ VsIdle
    /\ ProxyIdle
    /\ logCall = NoLogCall
    /\ logResult = Returned(JNull)
    /\ httpCall = NoHttpCall
    /\ httpResponse = NoResponse
    /\ \E names \in SUBSET OptionalNames : parentEnv \in [names \cup {Env.TARGET_CMD} -> EnvValues]
    /\ childEnv = NotSpawned

SpawnTargetServer ==
    /\ ~childEnv.spawned
    /\ childEnv' = [spawned |-> TRUE, vars |-> spawn_target_server(parentEnv)]
    /\ UNCHANGED <<configVars, codecVars, vsVars, proxyVars, logVars, httpVars, parentEnv>>

NextSpawn == SpawnTargetServer

SpecSpawn == InitSpawn /\ [][NextSpawn]_vars

-----------------------------------------------------------------------------
(* Claims about the codec *)

\* what a reader must return for the payloads in sent: each once, in order,
\* then EOF
ExpectedReads ==
    [i \in 1..(Len(sent) + 1) |->
        IF i <= Len(sent) THEN [res |-> "ok", payload |-> sent[i]]
                          ELSE [res |-> "eof", payload |-> <<>>]]

IsPrefixOf(a, b) == Len(a) <= Len(b) /\ SubSeq(b, 1, Len(a)) = a

\* C9: framing round-trip.  Reading the bytes write_jsonrpc_message produced
\* for a payload returns exactly that payload, and reading repeatedly from the
\* concatenated frames of a sequence of payloads returns the payloads in
\* order, each once, followed by EOF.
C9_FramingRoundTrip ==
    producer = "framed" =>
        /\ \A i \in 1..Len(sent) :
              read_jsonrpc_message(write_jsonrpc_message(sent[i]))
                  = ReadOk(sent[i], <<>>)
        /\ IsPrefixOf(received, ExpectedReads)
        /\ codecPc = "done" => received = ExpectedReads

\* C9 witness: two frames, one with a line break and a two-byte character in
\* its payload, were written and read back to EOF
C9_Witness ==
    /\ producer = "framed" /\ codecPc = "done"
    /\ Len(sent) = 2 /\ Len(received) = 3
    /\ sent[1] = <<"LF", "e_acute">>
    /\ sent[2] = <<>>

\* C10: newline-delimited fallback.  On a stream of JSON values, one per
\* line, without Content-Length headers, the reader returns every line,
\* trimmed, in order, and none is dropped.
C10_NewlineFallback ==
    (producer = "ndjson" /\ codecPc = "done") =>
        received = [i \in 1..(Len(sent) + 1) |->
                       IF i <= Len(sent)
                       THEN [res |-> "ok", payload |-> trim(sent[i])]
                       ELSE [res |-> "eof", payload |-> <<>>]]

\* C22: end of file before any byte of a message is EOF; end of file after
\* part of a frame was consumed (some header bytes, or fewer payload bytes
\* than Content-Length announced) is an error, never EOF and never a
\* truncated payload.
C22_EofMidFrameIsError ==
    /\ read_jsonrpc_message(<<>>).res = "eof"
    /\ (producer = "cut" /\ codecPc = "done") =>
          received = [i \in 1..(Len(sent) + 1) |->
                         IF i <= Len(sent) THEN [res |-> "ok", payload |-> sent[i]]
                                           ELSE [res |-> "err", payload |-> <<>>]]

-----------------------------------------------------------------------------
(* Claims about the validation service *)

\* the method validate_request extracts from the message of the last call
CalledMethod ==
    IF IsStr(Get(vsCall.message, Key.method))
    THEN Get(vsCall.message, Key.method).v ELSE Method.unknown

\* whether a local rule matches the message of the last call
LocalRuleMatches ==
    validate_method_specific(vsCall.message, CalledMethod, <<>>, <<>>).some

\* C7 as stated: with the api key "test-mode", validate_request allows every
\* request and the Guardrails client is never invoked.
C7_TestModeAllowsEvery ==
    (apiKey = "test-mode" /\ vsCall.fn = "validate_request") =>
        /\ vsResult.ok /\ vsResult.value.allowed
        /\ ~vsResult.javelin_called

\* C7 amended: with the api key "test-mode", validate_request never invokes
\* the Guardrails client, and it allows every request that matches no local
\* rule; a request a local rule matches is blocked all the same.
C7_TestModeSentinel ==
    (apiKey = "test-mode" /\ vsCall.fn = "validate_request") =>
        /\ vsResult.ok
        /\ ~vsResult.javelin_called
        /\ vsResult.value.allowed = ~LocalRuleMatches
        /\ vsResult.value.allowed =>
              /\ vsResult.value.confidence = 10
              /\ vsResult.value.reason = Reason.test_pre \o CalledMethod \o Reason.test_post

\* C7 witness: in test mode a tools/list request was allowed while the
\* Guardrails client, had it been asked, would have failed
C7_Witness ==
    /\ apiKey = "test-mode" /\ vsCall.fn = "validate_request"
    /\ vsCall.message = Request(JNum(1), Method.tools_list, Absent)
    /\ ~vsCall.javelin.ok
    /\ vsResult.value.allowed

-----------------------------------------------------------------------------
(* Claims about the stdio proxy *)

\* the message behind the i-th payload a worker read
C2SMessage(i) == from_str(c2sLog[i].payload).value
S2CMessage(i) == from_str(s2cLog[i].payload).value

\* a worker is done with its i-th message once it is back at its read, or
\* has left its loop from there
C2SFinished(i) ==
    \/ i < Len(c2sLog)
    \/ c2sPc = "read"
    \/ c2sPc = "done" /\ c2sExit \in {"eof", "read_err"}

S2CFinished(i) ==
    \/ i < Len(s2cLog)
    \/ s2cPc = "read"
    \/ s2cPc = "done" /\ s2cExit \in {"eof", "read_err"}

\* the positions in a stream of the chunks written for message n of worker by
ChunksOf(stream, by, n, part) ==
    {k \in 1..Len(stream) :
        stream[k].by = by /\ stream[k].n = n /\ stream[k].part = part}

\* a JSON-RPC error object answering the message with this id
IsErrorObject(body, id) ==
    /\ body.t = "obj"
    /\ IsSome(Get(body, Key.error))
    /\ Get(body, Key.id) = id

\* every Guardrails call the client-to-server worker made so far has failed
GuardrailsDown == \A i \in 1..Len(c2sLog) : c2sLog[i].javelin # "ok"

\* C1: a parsed message whose verdict has allowed = false is never written to
\* its counterparty (a blocked client request never to the child's stdin, a
\* blocked server message never to the client's stdout); what is written for
\* it is a JSON-RPC error object on the client's stdout, exactly one once the
\* worker is done with the message.
C1_BlockedNeverForwarded ==
    /\ \A i \in 1..Len(c2sLog) : c2sLog[i].verdict = "blocked" =>
          /\ \A k \in 1..Len(child_stdin) : child_stdin[k].n # i
          /\ \A k \in 1..Len(stdout) :
                (stdout[k].by = "c2s" /\ stdout[k].n = i) =>
                    IsErrorObject(stdout[k].body, IdOrNull(C2SMessage(i)))
          /\ Cardinality(ChunksOf(stdout, "c2s", i, "payload")) <= 1
          /\ C2SFinished(i) =>
                /\ Cardinality(ChunksOf(stdout, "c2s", i, "header")) = 1
                /\ Cardinality(ChunksOf(stdout, "c2s", i, "payload")) = 1
    /\ \A i \in 1..Len(s2cLog) : s2cLog[i].verdict = "blocked" =>
          /\ \A k \in 1..Len(stdout) :
                (stdout[k].by = "s2c" /\ stdout[k].n = i) =>
                    IsErrorObject(stdout[k].body, IdOrNull(S2CMessage(i)))
          /\ Cardinality(ChunksOf(stdout, "s2c", i, "payload")) <= 1
          /\ S2CFinished(i) =>
                /\ Cardinality(ChunksOf(stdout, "s2c", i, "header")) = 1
                /\ Cardinality(ChunksOf(stdout, "s2c", i, "payload")) = 1

\* C1 witness: a blocked client request and a blocked server message have
\* both been answered on stdout and both workers are back at their reads
C1_Witness ==
    /\ c2sPc = "read" /\ s2cPc = "read"
    /\ \E i \in 1..Len(c2sLog) :
          /\ c2sLog[i].verdict = "blocked"
          /\ ChunksOf(stdout, "c2s", i, "payload") # {}
    /\ \E i \in 1..Len(s2cLog) :
          /\ s2cLog[i].verdict = "blocked"
          /\ ChunksOf(stdout, "s2c", i, "payload") # {}

\* C2 as stated: with fail_open = false and every Guardrails call failing,
\* the client-to-server worker writes no message it read to the server's
\* stdin.
C2_FailClosedForwardsNothing ==
    (failOpen = FALSE /\ GuardrailsDown) => child_stdin = <<>>

\* C2 amended: with fail_open = false, an api key other than "test-mode" and
\* every Guardrails call failing, the client-to-server worker writes no
\* message that parsed as JSON to the server's stdin; a payload that is not
\* valid JSON is forwarded unvalidated.
C2_FailClosedForwardsNoParsed ==
    (failOpen = FALSE /\ apiKey # "test-mode" /\ GuardrailsDown) =>
        \A k \in 1..Len(child_stdin) : ~c2sLog[child_stdin[k].n].parsed

\* C2 witness: fail-closed, the Guardrails call for a tools/list request
\* failed and the request was answered with an error, then a payload that is
\* not JSON was forwarded
C2_Witness ==
    /\ failOpen = FALSE /\ apiKey # "test-mode" /\ GuardrailsDown
    /\ Len(c2sLog) = 2 /\ c2sPc = "read"
    /\ c2sLog[1].payload = "c_list_1" /\ c2sLog[1].javelin = "err"
    /\ c2sLog[2].payload = "c_garbage"
    /\ Len(child_stdin) = 2
    /\ ChunksOf(stdout, "c2s", 1, "payload") # {}

\* C3: whenever the Guardrails call fails while the server-to-client worker
\* validates a message from the server, the message is forwarded unchanged
\* to the client, whatever fail_open is.
C3_ResponseFailOpen ==
    \A i \in 1..Len(s2cLog) : s2cLog[i].javelin = "err" =>
        /\ s2cLog[i].verdict # "blocked"
        /\ \A k \in 1..Len(stdout) :
              (stdout[k].by = "s2c" /\ stdout[k].n = i) =>
                  stdout[k].body = Raw(s2cLog[i].payload)

\* a header chunk is followed, if by anything, by the payload of its frame
Contiguous(stream) ==
    \A k \in 1..(Len(stream) - 1) : stream[k].part = "header" =>
        /\ stream[k + 1].part = "payload"
        /\ stream[k + 1].by = stream[k].by
        /\ stream[k + 1].n = stream[k].n

\* C4: on each egress stream, the child's stdin and the client's stdout, the
\* header and the payload of one frame are contiguous under every
\* interleaving of the two workers.
C4_EgressFramesContiguous == Contiguous(child_stdin) /\ Contiguous(stdout)

\* C5: every request forwarded to the server with a non-null id has an entry
\* in the correlation table until the response carrying that id is observed
\* by the server-to-client worker, or the session ends.
C5_CorrelationInvariant ==
    mainPc # "exited" => \A id \in outstanding : id \in DOMAIN request_tracker

\* the ids of the requests written to the server, and the ids of the
\* messages the server-to-client worker has observed
ForwardedIds ==
    {Get(C2SMessage(child_stdin[k].n), Key.id) : k \in 1..Len(child_stdin)}

ObservedIds == {Get(S2CMessage(i), Key.id) : i \in 1..Len(s2cLog)}

\* C6: after any prefix of processing allowed requests with unique non-null
\* ids and their matching responses, the keys of the correlation table are
\* exactly the ids of the requests forwarded and not yet answered; once every
\* response has been observed the table is empty.
C6_TableConsistency ==
    (/\ traffic = "matching"
     /\ \A i \in 1..Len(c2sLog) : c2sLog[i].verdict = "allowed"
     /\ C2SFinished(Len(c2sLog))) =>
        /\ DOMAIN request_tracker = ForwardedIds \ ObservedIds
        /\ DOMAIN request_tracker = outstanding
        /\ Len(s2cLog) = Len(c2sLog) => request_tracker = <<>>

\* C6 witness: two requests were forwarded, both responses observed, and the
\* table is empty
C6_Witness ==
    /\ traffic = "matching"
    /\ Len(c2sLog) = 2 /\ c2sPc = "read"
    /\ \A i \in 1..2 : c2sLog[i].verdict = "allowed"
    /\ Len(child_stdin) = 4
    /\ Len(s2cLog) = 2
    /\ DOMAIN request_tracker = {}

\* C8: the error written to the client for a blocked client request has
\* error.code -32600, and its data carries the verdict's reason, confidence,
\* request_id and timestamp together with blocked_by.
C8_PolicyBlockErrorShape ==
    \A k \in 1..Len(stdout) :
        (/\ stdout[k].by = "c2s" /\ stdout[k].part = "payload"
         /\ c2sLog[stdout[k].n].verdict = "blocked") =>
            LET error == Get(stdout[k].body, Key.error)
                data  == Get(error, Key.data)
            IN /\ Get(error, Key.code) = JNum(-32600)
               /\ IsSome(Get(data, Key.reason))
               /\ IsSome(Get(data, Key.confidence))
               /\ IsSome(Get(data, Key.request_id))
               /\ IsSome(Get(data, Key.timestamp))
               /\ IsSome(Get(data, Key.blocked_by))

\* the numbers, in the order written, of the messages whose payload chunk a
\* worker wrote to a stream
RECURSIVE WrittenOrder(_, _)
WrittenOrder(stream, by) ==
    IF stream = <<>> THEN <<>>
    ELSE LET rest == WrittenOrder(Tail(stream), by) IN
         IF Head(stream).by = by /\ Head(stream).part = "payload"
         THEN <<Head(stream).n>> \o rest ELSE rest

StrictlyIncreasing(ns) == \A j \in 1..(Len(ns) - 1) : ns[j] < ns[j + 1]

\* the messages the client-to-server worker is done with and did not block
C2SForwardedDone ==
    {i \in 1..Len(c2sLog) : C2SFinished(i) /\ c2sLog[i].verdict # "blocked"}

\* C11: per direction, the messages are written to the egress in the order
\* in which they were read from the ingress.  On the child's stdin the
\* forwarded payloads appear in reading order, each the payload read; on the
\* client's stdout the server-to-client worker's frames (payloads and the
\* error objects put in their place) appear in reading order, one for each
\* message it is done with.
C11_EgressOrderIsIngressOrder ==
    /\ StrictlyIncreasing(WrittenOrder(child_stdin, "c2s"))
    /\ \A k \in 1..Len(child_stdin) :
          child_stdin[k].body = Raw(c2sLog[child_stdin[k].n].payload)
    /\ \A i \in C2SForwardedDone :
          \E k \in 1..Len(WrittenOrder(child_stdin, "c2s")) :
              WrittenOrder(child_stdin, "c2s")[k] = i
    /\ StrictlyIncreasing(WrittenOrder(stdout, "s2c"))
    /\ \A k \in 1..Len(stdout) : stdout[k].by = "s2c" =>
          IF s2cLog[stdout[k].n].verdict = "blocked"
          THEN IsErrorObject(stdout[k].body, IdOrNull(S2CMessage(stdout[k].n)))
          ELSE stdout[k].body = Raw(s2cLog[stdout[k].n].payload)
    /\ S2CFinished(Len(s2cLog)) =>
          WrittenOrder(stdout, "s2c") = [i \in 1..Len(s2cLog) |-> i]

\* C11 witness: two requests were forwarded and two server messages, one of
\* them replaced by an error object, were written to the client
C11_Witness ==
    /\ WrittenOrder(child_stdin, "c2s") = <<1, 2>>
    /\ WrittenOrder(stdout, "s2c") = <<1, 2>>
    /\ s2cLog[1].verdict = "blocked" /\ s2cLog[2].verdict = "allowed"

\* the messages the two workers hand to the validation service
ProxyMessages ==
    {from_str(p).value :
        p \in {q \in ClientPayloads \cup ServerPayloads \cup RequestPayloads
                        \cup ResponsePayloads : from_str(q).ok}}

\* C13: validate_request and validate_response never return an error:
\* whatever the message and whatever the Guardrails client answers (allow,
\* block, error), the call returns Ok with a verdict; so the workers' Err
\* arms after validation are never taken.
C13_ValidationNeverErr ==
    /\ vsCall # NoCall => vsResult.ok
    /\ \A message \in ProxyMessages, javelin \in JavelinOutcomes :
          /\ validate_request(message, apiKey, failOpen, javelin, Uuid(1), Now(1)).ok
          /\ validate_response(message, apiKey, failOpen, javelin, Uuid(1), Now(1)).ok

\* C13 witness: validate_response was called, the Guardrails client was
\* asked and failed, and the call returned Ok
C13_Witness ==
    /\ vsCall.fn = "validate_response"
    /\ ~vsCall.javelin.ok
    /\ vsResult.javelin_called
    /\ vsResult.ok

\* the verdict validate_request returns for the i-th client message when the
\* Guardrails client fails
FailPolicyVerdict(i) ==
    validate_request(C2SMessage(i), apiKey, failOpen, JavelinErr(Text.timeout), Uuid(2 * i), Now(2 * i))

\* C14: when the Guardrails client returns an error for a request that
\* triggers no local rule, validate_request returns allowed = fail_open with
\* confidence 0.0 and a reason beginning "Validation service unavailable,
\* failing open" (fail_open) or "... failing closed" (otherwise); with
\* fail_open the client-to-server worker then forwards the request.
C14_FailPolicy ==
    \A i \in 1..Len(c2sLog) : c2sLog[i].javelin = "err" =>
        /\ FailPolicyVerdict(i).ok
        /\ FailPolicyVerdict(i).value.allowed = failOpen
        /\ FailPolicyVerdict(i).value.confidence = 0
        /\ starts_with(FailPolicyVerdict(i).value.reason,
                       IF failOpen THEN Reason.failing_open
                                   ELSE Reason.failing_closed)
        /\ c2sLog[i].verdict = IF failOpen THEN "allowed" ELSE "blocked"
        /\ (failOpen /\ C2SFinished(i)) =>
              \E k \in ChunksOf(child_stdin, "c2s", i, "payload") :
                  child_stdin[k].body = Raw(c2sLog[i].payload)

\* C14 witness: fail-open, the Guardrails call for a tools/list request
\* failed and the request was written to the child's stdin
C14_Witness ==
    /\ failOpen /\ c2sPc = "read"
    /\ Len(c2sLog) = 1
    /\ c2sLog[1].payload = "c_list_1" /\ c2sLog[1].javelin = "err"
    /\ Len(child_stdin) = 2

-----------------------------------------------------------------------------
(* The log sanitizer *)

\* the length suffix truncate_for_log appends to a string of n bytes
LengthSuffix(n) == Text.ellipsis_open \o DecStr(n) \o Text.chars_close

\* C18: truncate_for_log never fails and never splits a character: a string
\* of at most 128 bytes is returned unchanged, and a longer one, wherever its
\* byte 128 falls, comes back as a prefix cut at a character boundary at or
\* before byte 128 followed by the length suffix.
C18_TruncateNeverSplitsNeverFails ==
    logCall.fn = "truncate_for_log" =>
        /\ logResult.ok
        /\ IF len(logCall.arg.v) <= MAX
           THEN logResult.value = logCall.arg.v
           ELSE \E k \in 0..Len(logCall.arg.v) :
                   /\ len(SubSeq(logCall.arg.v, 1, k)) <= MAX
                   /\ logResult.value = SubSeq(logCall.arg.v, 1, k) \o LengthSuffix(len(logCall.arg.v))

\* C16: the sanitizer is idempotent: sanitizing what it returned gives the
\* same value again, also when the value holds strings longer than 128 bytes.
C16_SanitizerIdempotent ==
    (logCall.fn = "sanitize_json_for_log" /\ logResult.ok) =>
        sanitize_json_for_log(logResult.value) = logResult

\* the key is one the sanitizer is specified to redact
SensitiveKey(k) == to_lowercase(k) \in SENSITIVE_KEYS

\* o has the shape of v: the same keys at every object, the same length at
\* every array, objects for objects and arrays for arrays. With redacting,
\* the value of a sensitive key is instead the redaction string, whatever
\* v held there.
RECURSIVE SameShape(_, _, _)
SameShape(v, o, redacting) ==
    CASE v.t = "obj" ->
           /\ o.t = "obj"
           /\ Len(o.v) = Len(v.v)
           /\ {o.v[i].k : i \in 1..Len(o.v)} = {v.v[i].k : i \in 1..Len(v.v)}
           /\ \A i \in 1..Len(v.v) :
                 IF redacting /\ SensitiveKey(v.v[i].k)
                 THEN Get(o, v.v[i].k) = JStr(Text.redacted)
                 ELSE SameShape(v.v[i].val, Get(o, v.v[i].k), redacting)
      [] v.t = "arr" ->
           /\ o.t = "arr"
           /\ Len(o.v) = Len(v.v)
           /\ \A i \in 1..Len(v.v) : SameShape(v.v[i], o.v[i], redacting)
      [] OTHER -> o.t = v.t

RECURSIVE Subvalues(_)
Subvalues(v) ==
    {v} \cup
    CASE v.t = "obj" -> UNION {Subvalues(v.v[i].val) : i \in 1..Len(v.v)}
      [] v.t = "arr" -> UNION {Subvalues(v.v[i]) : i \in 1..Len(v.v)}
      [] OTHER -> {}

\* the values stored under a sensitive key, at any depth
Secrets(v) ==
    {s \in Subvalues(v) : \E o \in Subvalues(v) :
        o.t = "obj" /\ \E i \in 1..Len(o.v) : SensitiveKey(o.v[i].k) /\ o.v[i].val = s}

-----------------------------------------------------------------------------
(* The child's environment *)

\* C20: the target server is started with the proxy's environment minus every
\* variable whose name begins with RAMPARTS_: none of those is visible to it.
C20_ChildEnvironmentFiltered ==
    childEnv.spawned =>
        /\ \A k \in DOMAIN childEnv.vars : ~starts_with(k, Env.prefix)
        /\ childEnv.vars = [k \in {k \in DOMAIN parentEnv : ~starts_with(k, Env.prefix)} |-> parentEnv[k]]

-----------------------------------------------------------------------------
(* The HTTP gateway *)

\* C15: POST /validate answers every verdict of "not allowed" (local rule,
\* Guardrails block, fail-closed) with 200 and valid = false, and answers 500
\* only when validate_request returned an error.
C15_PolicyBlockIsNot500 ==
    /\ (httpCall.called /\ httpCall.result.ok /\ ~httpCall.result.value.allowed) =>
          /\ httpResponse.status = 200
          /\ Get(httpResponse.body, Key.valid) = JBool(FALSE)
    /\ httpResponse.status = 500 => (httpCall.called /\ ~httpCall.result.ok)

\* the Guardrails client failed under fail-closed and the request was
\* answered with 200 and valid = false
C15_Witness ==
    /\ httpCall.called
    /\ httpCall.result.javelin_called
    /\ ~vsCall.javelin.ok
    /\ ~httpCall.result.value.allowed
    /\ httpResponse.status = 200
    /\ Get(httpResponse.body, Key.valid) = JBool(FALSE)

-----------------------------------------------------------------------------
(* Termination *)

\* C12: once either worker has ended (end of input, read error, write error
\* or panic), main ends with the child signalled to terminate; main never
\* ends with the child unsignalled; and once main has ended neither worker
\* takes another step.
C12_Termination ==
    /\ (c2sPc = "done" \/ s2cPc = "done") ~> (mainPc = "exited" /\ childKilled)
    /\ [](mainPc = "exited" => childKilled)
    /\ [][mainPc = "exited" => UNCHANGED <<c2sVars, s2cVars, sharedVars>>]_vars

\* the client-to-server worker panicked while the other worker was still
\* reading, and main ended with the child killed
C12_Witness ==
    /\ c2sExit = "panic"
    /\ s2cPc = "read"
    /\ mainPc = "exited"
    /\ childKilled

-----------------------------------------------------------------------------
(* Scenarios and per-message outcomes of the stdio proxy *)

\* the bytes one write_all of a forwarded payload puts on the stream: the
\* header or the payload part of write_jsonrpc_message on the payload's text
ChunkBytes(chunk) ==
    LET text  == payload_text(chunk.body.v)
        frame == write_jsonrpc_message(text)
        split == Len(frame) - Len(as_bytes(text))
    IN  IF chunk.part = "header" THEN SubSeq(frame, 1, split)
        ELSE SubSeq(frame, split + 1, Len(frame))

\* {"jsonrpc":"2.0","id":1,"method":"tools/list"}
ToolsListText ==
    <<"{", "\"", "j", "s", "o", "n", "r", "p", "c", "\"", ":", "\"", "2",
        ".", "0", "\"", ",", "\"", "i", "d", "\"", ":", "1", ",", "\"", "m",
        "e", "t", "h", "o", "d", "\"", ":", "\"", "t", "o", "o", "l", "s",
        "/", "l", "i", "s", "t", "\"", "}">>

\* the scenario's request was read, allowed by the evaluator and forwarded,
\* and the server has not answered it yet
AllowedScenario(i) ==
    /\ payload_text(c2sLog[i].payload) = ToolsListText
    /\ c2sLog[i].verdict = "allowed" /\ c2sLog[i].javelin = "ok"
    /\ C2SFinished(i)
    /\ JNum(1) \notin ObservedIds

\* the frame of message i on the child's stdin is these header characters
\* followed by the payload's bytes, and id 1 is a key of the table
ScenarioOutcome(i, header) ==
    /\ \E k \in 1..(Len(child_stdin) - 1) :
          /\ ChunksOf(child_stdin, "c2s", i, "header") = {k}
          /\ ChunksOf(child_stdin, "c2s", i, "payload") = {k + 1}
          /\ ChunkBytes(child_stdin[k]) = as_bytes(header)
          /\ ChunkBytes(child_stdin[k + 1]) = as_bytes(ToolsListText)
    /\ JNum(1) \in DOMAIN request_tracker

\* C21 as stated: the allowed tools/list request with id 1 is written to the
\* server's stdin byte for byte after the header "Content-Length: 44" CR LF CR
\* LF, and id 1 is in the correlation table afterwards.
C21_AllowedRequest44 ==
    \A i \in 1..Len(c2sLog) : AllowedScenario(i) =>
        ScenarioOutcome(i, ContentLengthPrefix \o <<"SP", "4", "4", "CR", "LF", "CR", "LF">>)

\* C21: the allowed tools/list request with id 1, which is 46 bytes long, is
\* written to the server's stdin byte for byte after the header
\* "Content-Length: 46" CR LF CR LF, and id 1 is in the correlation table
\* afterwards.
C21_AllowedRequest46 ==
    \A i \in 1..Len(c2sLog) : AllowedScenario(i) =>
        ScenarioOutcome(i, ContentLengthPrefix \o <<"SP", "4", "6", "CR", "LF", "CR", "LF">>)

\* the scenario has happened: the request was allowed by the evaluator and
\* its frame is on the child's stdin
C21_Witness ==
    \E i \in 1..Len(c2sLog) :
        AllowedScenario(i) /\ ChunksOf(child_stdin, "c2s", i, "payload") # {}

\* the i-th client message was allowed and carries this id
AllowedWithId(i, id) ==
    /\ c2sLog[i].parsed /\ c2sLog[i].verdict = "allowed"
    /\ Get(C2SMessage(i), Key.id) = id

\* the frame of the i-th client message is on the child's stdin
WrittenToServer(i) == ChunksOf(child_stdin, "c2s", i, "payload") # {}

\* the client-to-server worker has inserted the entry of its i-th message
\* and is at the write, or the write has failed
AtWrite(i) ==
    /\ i = Len(c2sLog)
    /\ c2sPc = "forward" \/ (c2sPc = "done" /\ c2sExit = "write_err")

\* the keys whose entry this step stores or replaces
Stored ==
    {id \in DOMAIN request_tracker' :
        id \notin DOMAIN request_tracker \/ request_tracker'[id] # request_tracker[id]}

\* a step stores an entry only for the allowed request with an id that the
\* client-to-server worker is processing: never for a notification, never
\* for a blocked request
StoresOnlyAllowed ==
    \A id \in Stored :
        /\ c2sPc = "insert"
        /\ AllowedWithId(Len(c2sLog), id)
        /\ id # Absent

\* C23: in every reachable state every key of the correlation table is the
\* id of a client request that was allowed and written to the server; a
\* notification never adds an entry and a blocked request never adds one.
C23_TableOnlyForwarded ==
    /\ [](\A id \in DOMAIN request_tracker :
            \E i \in 1..Len(c2sLog) : AllowedWithId(i, id) /\ WrittenToServer(i))
    /\ [][StoresOnlyAllowed]_vars

\* C23 (amended): every key of the correlation table is the id of a client
\* request that was allowed and that the worker has written to the server,
\* is about to write (the insert comes first), or failed to write; a
\* notification never adds an entry and a blocked request never adds one.
C23_TableOnlyAllowed ==
    /\ [](\A id \in DOMAIN request_tracker :
            \E i \in 1..Len(c2sLog) :
                AllowedWithId(i, id) /\ (WrittenToServer(i) \/ AtWrite(i)))
    /\ [][StoresOnlyAllowed]_vars

\* the table holds the entry of a request that was written to the server,
\* and the worker has also dealt with a notification or a blocked request
C23_Witness ==
    /\ \E id \in DOMAIN request_tracker :
          \E i \in 1..Len(c2sLog) : AllowedWithId(i, id) /\ WrittenToServer(i)
    /\ \E j \in 1..Len(c2sLog) :
          /\ C2SFinished(j)
          /\ c2sLog[j].verdict = "blocked" \/ ~IsSome(Get(C2SMessage(j), Key.id))

\* the worker wrote one frame for its i-th message: the payload as it was read
PassedThrough(stream, by, i, payload) ==
    \E h, p \in 1..Len(stream) :
        /\ h < p
        /\ ChunksOf(stream, by, i, "header") = {h}
        /\ ChunksOf(stream, by, i, "payload") = {p}
        /\ stream[p].kind = "payload" /\ stream[p].body = Raw(payload)

\* the i-th entry of a worker's log is a payload that is not JSON, neither
\* validated nor the end of the worker by a panic
UnparsedUnharmed(log, i, pc, exit) ==
    /\ log[i].verdict = "none" /\ log[i].javelin = "none"
    /\ ~(i = Len(log) /\ pc = "done" /\ exit = "panic")

\* a step that reads a payload which is not JSON leaves the table alone
UnparsedKeepsTable ==
    \/ request_tracker' = request_tracker
    \/ /\ Len(c2sLog') > Len(c2sLog) => from_str(c2sLog'[Len(c2sLog')].payload).ok
       /\ Len(s2cLog') > Len(s2cLog) => from_str(s2cLog'[Len(s2cLog')].payload).ok

\* C24: a client payload that is not valid JSON is written unchanged, framed,
\* to the server without a call of the validation service and without a
\* change of the correlation table, and the worker goes on to its next read;
\* the same holds for a server payload that is not valid JSON, towards the
\* client.
C24_ProtocolErrorPassThrough ==
    /\ [](\A i \in 1..Len(c2sLog) : ~from_str(c2sLog[i].payload).ok =>
            /\ UnparsedUnharmed(c2sLog, i, c2sPc, c2sExit)
            /\ C2SFinished(i) => PassedThrough(child_stdin, "c2s", i, c2sLog[i].payload))
    /\ [](\A i \in 1..Len(s2cLog) : ~from_str(s2cLog[i].payload).ok =>
            /\ UnparsedUnharmed(s2cLog, i, s2cPc, s2cExit)
            /\ S2CFinished(i) => PassedThrough(stdout, "s2c", i, s2cLog[i].payload))
    /\ [][UnparsedKeepsTable]_vars

\* a step that writes the frame of an allowed request with an id to the
\* server finds the entry of that request in the table
WriteFindsEntry ==
    child_stdin' # child_stdin =>
        LET id == Get(C2SRequest, Key.id)
        IN  (c2sLog[Len(c2sLog)].verdict = "allowed" /\ IsSome(id)) =>
                (id \in DOMAIN request_tracker /\ request_tracker[id] = C2SPayload)

\* a step in which the server-to-client worker reads a response with an id
\* finds the entry of the request it answers in the table
ResponseFindsEntry ==
    Len(s2cLog') > Len(s2cLog) =>
        LET response == from_str(s2cLog'[Len(s2cLog')].payload).value
        IN  (IsResponse(response) /\ IsSome(Get(response, Key.id))) =>
                Get(response, Key.id) \in DOMAIN request_tracker

\* C25: under every interleaving of the two workers the entry of an allowed
\* request is in the table before any byte of the request is written to the
\* server, so the response worker finds the entry whenever it processes the
\* matching response, and no entry remains for a response already processed.
C25_InsertBeforeRemove ==
    /\ [][WriteFindsEntry /\ ResponseFindsEntry]_vars
    /\ [](\A id \in DOMAIN request_tracker : id \notin ObservedIds)

\* the response to a forwarded request has been processed and its entry is
\* gone, while the other worker is between the insert and the write of
\* another request
C25_Witness ==
    /\ c2sPc = "forward"
    /\ \E id \in ObservedIds : id \in ForwardedIds /\ id \notin DOMAIN request_tracker
    /\ Get(C2SRequest, Key.id) \in DOMAIN request_tracker

\* the entry the server-to-client worker appends to its log in this step
S2CProcessed == s2cLog'[Len(s2cLog')]

\* the step in which the server-to-client worker processes a parsed message
\* with an id leaves no entry for that id, whatever verdict it logs
RemovedWhateverVerdict ==
    Len(s2cLog') > Len(s2cLog) =>
        LET id == Get(from_str(S2CProcessed.payload).value, Key.id)
        IN  (S2CProcessed.parsed /\ S2CProcessed.verdict # "none" /\ IsSome(id)) =>
                id \notin DOMAIN request_tracker'

\* C26: once the server-to-client worker has processed a parsed server
\* message carrying an id, the correlation table holds no entry for that id,
\* whether the message was forwarded, blocked, or its validation failed.
C26_RemovalRegardlessOfVerdict == [][RemovedWhateverVerdict]_vars

\* a response was blocked and the entry of the request it answers, which
\* had been written to the server, is gone
C26_Witness ==
    \E i \in 1..Len(s2cLog) :
        LET id == Get(S2CMessage(i), Key.id)
        IN  /\ s2cLog[i].verdict = "blocked"
            /\ IsSome(id) /\ id \in ForwardedIds
            /\ id \notin DOMAIN request_tracker

\* the methods the local rule engine has rules for
RuledMethods == {Method.tools_call, Method.resources_read, Method.prompts_get}

\* C27: when a local rule matches the request, validate_request returns a
\* block verdict without a call of the Guardrails client, whatever the api
\* key ("test-mode" included) and fail_open are; for a method other than
\* tools/call, resources/read and prompts/get, a message without a method
\* included, no local rule matches and the verdict comes from the test mode
\* or from the Guardrails client.
C27_LocalRulesShortCircuit ==
    vsCall.fn = "validate_request" =>
        /\ LocalRuleMatches =>
              /\ vsResult.ok /\ ~vsResult.value.allowed
              /\ ~vsResult.javelin_called
              /\ vsResult.value.confidence \in {8, 9}
        /\ CalledMethod \notin RuledMethods =>
              /\ ~LocalRuleMatches
              /\ vsResult.javelin_called \/ (apiKey = "test-mode" /\ vsResult.value.allowed)

\* a dangerous tool call was blocked in test mode with fail_open set, and
\* the Guardrails client was ready to approve it
C27_Witness ==
    /\ vsCall.fn = "validate_request"
    /\ apiKey = "test-mode" /\ failOpen
    /\ vsCall.javelin = JavelinOk(TRUE)
    /\ LocalRuleMatches
    /\ ~vsResult.value.allowed /\ ~vsResult.javelin_called

\* the tool name and the arguments of the tools/call of the last call
CalledName == Get(Get(vsCall.message, Key.params), Key.name)
CalledArguments == Get(Get(vsCall.message, Key.params), Key.arguments)

\* the tool name of the last call is a string that names a dangerous tool
CalledNameDangerous == IsStr(CalledName) /\ is_dangerous_tool(CalledName.v)

\* C28: every tools/call whose tool name is not dangerous and whose
\* params.arguments, as a lowercased string, contains a listed injection
\* substring is blocked with confidence 0.8, whether or not params.name is
\* present and a string; a dangerous tool name comes first and gives
\* confidence 0.9.
C28_ArgumentInjectionScan ==
    (vsCall.fn = "validate_request" /\ CalledMethod = Method.tools_call) =>
        /\ CalledNameDangerous =>
              (~vsResult.value.allowed /\ vsResult.value.confidence = 9)
        /\ (/\ ~CalledNameDangerous
            /\ IsSome(CalledArguments)
            /\ contains_injection_patterns(CalledArguments)) =>
              (~vsResult.value.allowed /\ vsResult.value.confidence = 8)

\* the worker has left no bytes unflushed on an egress stream
AllFlushed(by) == \A u \in unflushed : u[2] # by

\* C29: in each worker every message written to an egress stream (a payload
\* to the child's stdin, a response or an error object to the client's
\* stdout) is completely written and flushed before the worker reads its
\* next message.
C29_FlushedBeforeNextRead ==
    /\ c2sPc = "read" => AllFlushed("c2s")
    /\ s2cPc = "read" => AllFlushed("s2c")

\* the chunks a worker wrote to a stream for its i-th message are one frame:
\* one header and then one payload
OneFrame(stream, by, i) ==
    \E h, p \in 1..Len(stream) :
        /\ h < p
        /\ ChunksOf(stream, by, i, "header") = {h}
        /\ ChunksOf(stream, by, i, "payload") = {p}

\* a worker wrote nothing to a stream for its i-th message
NoFrameFor(stream, by, i) ==
    \A k \in 1..Len(stream) : ~(stream[k].by = by /\ stream[k].n = i)

\* what a worker wrote to a stream for its i-th message is the payload it read
IsOriginal(stream, by, i, payload) ==
    \A k \in ChunksOf(stream, by, i, "payload") : stream[k].body = Raw(payload)

\* what a worker wrote to a stream for its i-th message is an error object
IsError(stream, by, i, message) ==
    \A k \in ChunksOf(stream, by, i, "payload") :
        IsErrorObject(stream[k].body, IdOrNull(message))

\* C30: for every message a worker has read and is done with, the worker
\* has written exactly one frame: the client-to-server worker either the
\* original payload to the server or one error object to the client, never
\* both and never neither; the server-to-client worker either the original
\* payload or one error object to the client.
C30_ExactlyOneOutcome ==
    /\ \A i \in 1..Len(c2sLog) : C2SFinished(i) =>
          \/ /\ OneFrame(child_stdin, "c2s", i) /\ NoFrameFor(stdout, "c2s", i)
             /\ IsOriginal(child_stdin, "c2s", i, c2sLog[i].payload)
          \/ /\ OneFrame(stdout, "c2s", i) /\ NoFrameFor(child_stdin, "c2s", i)
             /\ IsError(stdout, "c2s", i, C2SMessage(i))
    /\ \A i \in 1..Len(s2cLog) : S2CFinished(i) =>
          /\ OneFrame(stdout, "s2c", i) /\ NoFrameFor(child_stdin, "s2c", i)
          /\ \/ IsOriginal(stdout, "s2c", i, s2cLog[i].payload)
             \/ IsError(stdout, "s2c", i, S2CMessage(i))

\* the client-to-server worker is done with two messages, one forwarded to
\* the server and one answered with an error object, and the server-to-client
\* worker is done with a message
C30_Witness ==
    /\ Len(c2sLog) = 2 /\ C2SFinished(2)
    /\ \E i, j \in 1..2 :
          /\ ChunksOf(child_stdin, "c2s", i, "payload") # {}
          /\ ChunksOf(stdout, "c2s", j, "payload") # {}
    /\ Len(s2cLog) = 1 /\ S2CFinished(1)

-----------------------------------------------------------------------------
(* The previews the workers log *)

\* the characters of s occur, in a row, in text
Contains(text, s) ==
    \E i \in 1..(Len(text) - Len(s) + 1) : SubSeq(text, i, i + Len(s) - 1) = s

\* C31: every payload preview that either worker logs has been passed
\* through the sanitizer and then truncated; the server-to-client worker, as
\* the client-to-server worker, logs no part of a payload that the sanitizer
\* would have redacted.
C31_PreviewsSanitized ==
    (logCall.fn \in {"request_preview", "response_preview"} /\ logResult.ok) =>
        /\ sanitize_json_for_log(logCall.arg).ok
        /\ logResult = truncate_for_log(to_string(sanitize_json_for_log(logCall.arg).value))
        /\ \A s \in Secrets(logCall.arg) : s.t = "str" => ~Contains(logResult.value, s.v)

====
